---- MODULE Spec2Model ----
(***************************************************************************)
(* Verification model of the pipelined ("friday") consensus engine of      *)
(* hdac-io/tendermint.                                                     *)
(*                                                                         *)
(* Part 1: the parallel-height signer-state store of privval/friday_file.go *)
(*         (FridayFilePVSignState / FridayFilePV).                         *)
(***************************************************************************)
EXTENDS Integers, Sequences, FiniteSets, TLC

\* ------------------------------------------------------------------------
\* Bounds of the signer model
\* ------------------------------------------------------------------------
MaxSignHeight == 2
MaxSignRound == 1
MaxTime == 1
MaxCalls == 3
MaxHeight == 3
MaxRound == 1
LenULB == 2

\* lenULB of the runs without pipelining
SerialLenULB == 1

\* the runs with a conflicting vote end at this height
MaxEquivocationHeight == 1

SignHeights == 1..MaxSignHeight
SignRounds == 0..MaxSignRound
Times == 0..MaxTime

\* block ids a vote or proposal may carry; "nil" is the empty BlockID
SignBlockIDs == {"nil", "A"}

\* proof-of-lock rounds a proposal of this round may carry: none (-1) or an
\* earlier round
POLRounds(round) == -1..(round - 1)

\* ------------------------------------------------------------------------
\* Steps of privval (stepPropose / stepPrevote / stepPrecommit)
\* ------------------------------------------------------------------------
stepPropose == 1
stepPrevote == 2
stepPrecommit == 3

PrevoteType == "prevote"
PrecommitType == "precommit"
ProposalType == "proposal"

voteToStep(type) == IF type = PrevoteType THEN stepPrevote ELSE stepPrecommit

\* ------------------------------------------------------------------------
\* Canonical sign-bytes.  The timestamp is the last component; everything
\* before it is the canonical payload.
\* ------------------------------------------------------------------------
VoteSignBytes(type, h, r, bid, ts) == <<type, h, r, bid, ts>>

ProposalSignBytes(h, r, pol, bid, ts) == <<ProposalType, h, r, pol, bid, ts>>

SignBytesTime(sb) == sb[Len(sb)]

SignBytesPayload(sb) == SubSeq(sb, 1, Len(sb) - 1)

\* checkVotesOnlyDifferByTimestamp / checkProposalsOnlyDifferByTimestamp:
\* <<timestamp of the last sign-bytes, whether only the timestamp differs>>
checkOnlyDifferByTimestamp(lastSignBytes, newSignBytes) ==
    <<SignBytesTime(lastSignBytes),
      SignBytesPayload(lastSignBytes) = SignBytesPayload(newSignBytes)>>

\* PrivKey.Sign: deterministic signature over the sign-bytes
Sign(signBytes) == <<"sig", signBytes>>

\* ------------------------------------------------------------------------
\* FridayFilePVSignState as a value: pv.HeightSignStateMap is a function
\* whose domain is the set of stored heights.
\* ------------------------------------------------------------------------
EmptyMap == [h \in {} |-> 0]

NewSignState == [HeightSignStateMap |-> EmptyMap, ImmutableHeight |-> 0]

MapStore(m, k, v) == [x \in (DOMAIN m) \cup {k} |-> IF x = k THEN v ELSE m[x]]

MapDelete(m, ks) == [x \in (DOMAIN m) \ ks |-> m[x]]

ErrNone == "ok"
ErrHeightRegression == "height regression"
ErrRoundRegression == "round regression"
ErrStepRegression == "step regression"
ErrNoSignBytes == "no SignBytes found"
ErrConflictingData == "conflicting data"
ErrImmutableRegression == "immutable height regression"

RegressionErrors == {ErrHeightRegression, ErrRoundRegression, ErrStepRegression}

\* CheckHRS with the step comparison left out (fault injection)
CheckHRS_NoStepCheck(ss, height, round, step) ==
    IF ss.ImmutableHeight >= height
    THEN [sameHRS |-> FALSE, err |-> ErrHeightRegression]
    ELSE IF height \in DOMAIN ss.HeightSignStateMap
         THEN LET signState == ss.HeightSignStateMap[height] IN
              IF signState.Round > round
              THEN [sameHRS |-> FALSE, err |-> ErrRoundRegression]
              ELSE IF signState.Round = round /\ signState.Step = step
                   THEN [sameHRS |-> TRUE, err |-> ErrNone]
                   ELSE [sameHRS |-> FALSE, err |-> ErrNone]
         ELSE [sameHRS |-> FALSE, err |-> ErrNone]

\* CheckHRS: [sameHRS, err]; the stored SignState is read by the caller
CheckHRS(ss, height, round, step) ==
    IF ss.ImmutableHeight >= height
    THEN [sameHRS |-> FALSE, err |-> ErrHeightRegression]
    ELSE IF height \in DOMAIN ss.HeightSignStateMap
         THEN LET signState == ss.HeightSignStateMap[height] IN
              IF signState.Round > round
              THEN [sameHRS |-> FALSE, err |-> ErrRoundRegression]
              ELSE IF signState.Round = round
                   THEN IF signState.Step > step
                        THEN [sameHRS |-> FALSE, err |-> ErrStepRegression]
                        ELSE IF signState.Step = step
                             THEN \* SignBytes is never nil once stored by saveSigned
                                  [sameHRS |-> TRUE, err |-> ErrNone]
                             ELSE [sameHRS |-> FALSE, err |-> ErrNone]
                   ELSE [sameHRS |-> FALSE, err |-> ErrNone]
         ELSE [sameHRS |-> FALSE, err |-> ErrNone]

storeSignState(ss, height, round, step, signBytes, signature) ==
    [ss EXCEPT !.HeightSignStateMap =
        MapStore(@, height, [Round |-> round, Step |-> step,
                             Signature |-> signature, SignBytes |-> signBytes])]

\* MarshalJSON / UnmarshalJSON: the file holds the map as an object keyed by
\* the stringified height, and the watermark.
HeightKey(h) == ToString(h)

KeyHeight(s) == CHOOSE h \in 0..(MaxSignHeight + 8) : ToString(h) = s

MarshalJSON(ss) ==
    [height_sign_states |->
        [s \in {HeightKey(h) : h \in DOMAIN ss.HeightSignStateMap} |->
            ss.HeightSignStateMap[KeyHeight(s)]],
     immutable_height |-> ss.ImmutableHeight]

UnmarshalJSON(marshaled) ==
    [HeightSignStateMap |->
        [h \in {KeyHeight(s) : s \in DOMAIN marshaled.height_sign_states} |->
            marshaled.height_sign_states[HeightKey(h)]],
     ImmutableHeight |-> marshaled.immutable_height]

\* reset: Range + Delete of every key
reset(ss) == [ss EXCEPT !.HeightSignStateMap = EmptyMap]

\* The orders in which sync.Map.Range may visit the keys: every permutation.
RangeOrders(keys) ==
    {o \in [1..Cardinality(keys) -> keys] :
        \A i, j \in 1..Cardinality(keys) : i # j => o[i] # o[j]}

\* The keys the Range callback of setImmutableHeight deletes when it visits
\* the keys in this order: it deletes while the key is below the watermark
\* and stops the iteration at the first key that is not.
RECURSIVE RangeDeleted(_, _, _)
RangeDeleted(order, i, immutable) ==
    IF i > Len(order) THEN {}
    ELSE IF immutable > order[i]
         THEN {order[i]} \cup RangeDeleted(order, i + 1, immutable)
         ELSE {}

\* setImmutableHeight with the regression check left out (fault injection)
setImmutableHeight_NoRegressionCheck(ss, height, order) ==
    [ss |-> [HeightSignStateMap |->
                MapDelete(ss.HeightSignStateMap, RangeDeleted(order, 1, height)),
             ImmutableHeight |-> height],
     err |-> ErrNone]

\* setImmutableHeight under one visiting order: [ss, err]
setImmutableHeight(ss, height, order) ==
    IF ss.ImmutableHeight > height
    THEN [ss |-> ss, err |-> ErrImmutableRegression]
    ELSE [ss |-> [HeightSignStateMap |->
                     MapDelete(ss.HeightSignStateMap, RangeDeleted(order, 1, height)),
                  ImmutableHeight |-> height],
          err |-> ErrNone]

\* signVote / signProposal up to the decision, common to both:
\*   msg  = [h, r, step, ts] and its sign-bytes as a function of the timestamp
\*   result [err, fresh, sig, ts, ss]: fresh = a new signature was produced
\*   and has to be persisted by saveSigned; sig = "" when unsigned.
NoSig == <<>>

\* signMsg that signs where the code reports conflicting data (fault injection)
signMsg_SignOnConflict(ss, height, round, step, signBytes) ==
    LET chk == CheckHRS(ss, height, round, step) IN
    IF chk.err # ErrNone
    THEN [err |-> chk.err, fresh |-> FALSE, sig |-> NoSig,
          ts |-> SignBytesTime(signBytes), ss |-> ss]
    ELSE IF chk.sameHRS
         THEN LET exist == ss.HeightSignStateMap[height]
                  d == checkOnlyDifferByTimestamp(exist.SignBytes, signBytes) IN
              IF signBytes = exist.SignBytes
              THEN [err |-> ErrNone, fresh |-> FALSE, sig |-> exist.Signature,
                    ts |-> SignBytesTime(signBytes), ss |-> ss]
              ELSE IF d[2]
                   THEN [err |-> ErrNone, fresh |-> FALSE, sig |-> exist.Signature,
                         ts |-> d[1], ss |-> ss]
                   ELSE [err |-> ErrNone, fresh |-> TRUE, sig |-> Sign(signBytes),
                         ts |-> SignBytesTime(signBytes),
                         ss |-> storeSignState(ss, height, round, step, signBytes, Sign(signBytes))]
         ELSE [err |-> ErrNone, fresh |-> TRUE, sig |-> Sign(signBytes),
               ts |-> SignBytesTime(signBytes),
               ss |-> storeSignState(ss, height, round, step, signBytes, Sign(signBytes))]

signMsg(ss, height, round, step, signBytes) ==
    LET chk == CheckHRS(ss, height, round, step) IN
    IF chk.err # ErrNone
    THEN [err |-> chk.err, fresh |-> FALSE, sig |-> NoSig,
          ts |-> SignBytesTime(signBytes), ss |-> ss]
    ELSE IF chk.sameHRS
         THEN LET exist == ss.HeightSignStateMap[height]
                  d == checkOnlyDifferByTimestamp(exist.SignBytes, signBytes) IN
              IF signBytes = exist.SignBytes
              THEN [err |-> ErrNone, fresh |-> FALSE, sig |-> exist.Signature,
                    ts |-> SignBytesTime(signBytes), ss |-> ss]
              ELSE IF d[2]
                   THEN [err |-> ErrNone, fresh |-> FALSE, sig |-> exist.Signature,
                         ts |-> d[1], ss |-> ss]
                   ELSE [err |-> ErrConflictingData, fresh |-> FALSE, sig |-> NoSig,
                         ts |-> SignBytesTime(signBytes), ss |-> ss]
         ELSE \* It passed the checks. Sign, then saveSigned stores the record.
              [err |-> ErrNone, fresh |-> TRUE, sig |-> Sign(signBytes),
               ts |-> SignBytesTime(signBytes),
               ss |-> storeSignState(ss, height, round, step, signBytes, Sign(signBytes))]

\* signVote / signProposal: the HRS and the sign-bytes of the message
signVote(ss, vote) ==
    signMsg(ss, vote.Height, vote.Round, voteToStep(vote.Type),
            VoteSignBytes(vote.Type, vote.Height, vote.Round, vote.BlockID, vote.Timestamp))

signProposal(ss, proposal) ==
    signMsg(ss, proposal.Height, proposal.Round, stepPropose,
            ProposalSignBytes(proposal.Height, proposal.Round, proposal.POLRound,
                              proposal.BlockID, proposal.Timestamp))

\* ------------------------------------------------------------------------
\* State of the signer model
\* ------------------------------------------------------------------------
VARIABLES
    pv,        \* FridayFilePV.SignState in memory
    file,      \* the signer state file on disk (marshalled JSON)
    res,       \* the call made by the last step and what it returned
    granted,   \* history: one request that returned with a signature, or none
    ncalls,    \* history: the number of calls made (counted where it is bounded)
    thr,       \* concurrent signing: the position and locals of each handler
    nodes,     \* the consensus state of each node (Part 2)
    net        \* the messages the nodes have gossiped (Part 2)

signerVars == <<pv, file, res, granted, ncalls, thr>>

nodeVars == <<nodes, net>>

vars == <<pv, file, res, granted, ncalls, thr, nodes, net>>

NoCall == [op |-> "none", h |-> 0, r |-> 0, s |-> 0, req |-> <<>>,
           err |-> ErrNone, fresh |-> FALSE, sig |-> NoSig, ts |-> 0]

SignOps == {"SignVote", "SignProposal"}

\* Save: marshal the state and write the file atomically
Save(ss) == MarshalJSON(ss)

SignCall(op, height, round, step, signBytes, out) ==
    /\ pv' = out.ss
    \* saveSigned: storeSignState (in out.ss) and Save
    /\ file' = IF out.fresh THEN Save(out.ss) ELSE file
    /\ res' = [op |-> op, h |-> height, r |-> round, s |-> step, req |-> signBytes,
               err |-> out.err, fresh |-> out.fresh, sig |-> out.sig, ts |-> out.ts]
    /\ UNCHANGED <<thr, nodes, net>>

SignVote(height, round, type, bid, ts) ==
    LET vote == [Type |-> type, Height |-> height, Round |-> round,
                 BlockID |-> bid, Timestamp |-> ts] IN
    SignCall("SignVote", height, round, voteToStep(type),
             VoteSignBytes(type, height, round, bid, ts), signVote(pv, vote))

SignProposal(height, round, pol, bid, ts) ==
    LET proposal == [Height |-> height, Round |-> round, POLRound |-> pol,
                     BlockID |-> bid, Timestamp |-> ts] IN
    SignCall("SignProposal", height, round, stepPropose,
             ProposalSignBytes(height, round, pol, bid, ts), signProposal(pv, proposal))

\* FridayFilePV.SetImmutableHeight: the state is changed in memory only
SetImmutableHeight(height, order) ==
    LET out == setImmutableHeight(pv, height, order) IN
    /\ pv' = out.ss
    /\ res' = [NoCall EXCEPT !.op = "SetImmutableHeight", !.h = height, !.err = out.err]
    /\ UNCHANGED <<file, thr, nodes, net>>

\* FridayFilePV.Reset: reset, then Save
Reset ==
    /\ pv' = reset(pv)
    /\ file' = Save(reset(pv))
    /\ res' = [NoCall EXCEPT !.op = "Reset"]
    /\ UNCHANGED <<granted, ncalls, thr, nodes, net>>

\* LoadFridayFilePV after a crash: the state is read back from the file
Reload ==
    /\ pv' = UnmarshalJSON(file)
    /\ res' = [NoCall EXCEPT !.op = "Reload"]
    /\ UNCHANGED <<file, granted, ncalls, thr, nodes, net>>

SignerInit ==
    /\ pv = NewSignState
    /\ file = MarshalJSON(NewSignState)
    /\ res = NoCall
    /\ granted = {}
    /\ ncalls = 0
    /\ thr = <<>>
    /\ nodes = <<>>
    /\ net = {}

SignVoteAny ==
    /\ \E height \in SignHeights, round \in SignRounds, type \in {PrevoteType, PrecommitType},
          bid \in SignBlockIDs, ts \in Times :
           SignVote(height, round, type, bid, ts)
    /\ UNCHANGED <<granted, ncalls>>

SignProposalAny ==
    /\ \E height \in SignHeights, round \in SignRounds, bid \in SignBlockIDs \ {"nil"}, ts \in Times :
           \E pol \in POLRounds(round) : SignProposal(height, round, pol, bid, ts)
    /\ UNCHANGED <<granted, ncalls>>

SetImmutableHeightAny ==
    /\ \E height \in 0..MaxSignHeight :
           \E order \in RangeOrders(DOMAIN pv.HeightSignStateMap) :
               SetImmutableHeight(height, order)
    /\ UNCHANGED <<granted, ncalls>>

\* Every call of the signer's interface, and a reload from the file, in any
\* order and number
SignerFullNext == SignVoteAny \/ SignProposalAny \/ SetImmutableHeightAny \/ Reset \/ Reload

SpecSignerFull == SignerInit /\ [][SignerFullNext]_vars

\* The signer without Reset and reload: behaviours of at most MaxCalls calls,
\* in which any one request that returned with a signature is remembered
Remember ==
    /\ ncalls < MaxCalls
    /\ ncalls' = ncalls + 1
    /\ \/ granted' = granted
       \/ /\ granted = {}
          /\ res'.op \in SignOps
          /\ res'.err = ErrNone
          /\ granted' = {[h |-> res'.h, r |-> res'.r, s |-> res'.s,
                          payload |-> SignBytesPayload(res'.req)]}

SignVoteCounted ==
    /\ \E height \in SignHeights, round \in SignRounds, type \in {PrevoteType, PrecommitType},
          bid \in SignBlockIDs, ts \in Times :
           SignVote(height, round, type, bid, ts)
    /\ Remember

SignProposalCounted ==
    /\ \E height \in SignHeights, round \in SignRounds, bid \in SignBlockIDs \ {"nil"}, ts \in Times :
           \E pol \in POLRounds(round) : SignProposal(height, round, pol, bid, ts)
    /\ Remember

SetImmutableHeightCounted ==
    /\ \E height \in 0..MaxSignHeight :
           \E order \in RangeOrders(DOMAIN pv.HeightSignStateMap) :
               SetImmutableHeight(height, order)
    /\ Remember

SignerNext == SignVoteCounted \/ SignProposalCounted \/ SetImmutableHeightCounted

SpecSigner == SignerInit /\ [][SignerNext]_vars

\* ------------------------------------------------------------------------
\* Concurrent signing.  The consensus state starts one goroutine per message
\* and per timeout, and a handler holds the lock of its own height only, so
\* handlers of different heights call SignVote / SignProposal on the one
\* FridayFilePV at the same time.  FridayFilePV has no lock of its own: the
\* steps of signVote / signProposal of different handlers interleave.
\* Handler t signs for height t.
\* ------------------------------------------------------------------------
NumHandlers == 2

MaxLenULB == 2

Handlers == 1..NumHandlers

IdleHandler == [pc |-> "idle", r |-> 0, s |-> 0, req |-> <<>>, sig |-> NoSig,
                snap |-> <<>>]

ConcInit ==
    /\ pv = NewSignState
    /\ file = MarshalJSON(NewSignState)
    /\ res = NoCall
    /\ granted = {}
    /\ ncalls = 0
    /\ thr = [t \in Handlers |-> IdleHandler]
    /\ nodes = <<>>
    /\ net = {}

\* signVote / signProposal up to Sign: CheckHRS, the re-sign cases (which
\* return at once) and the signature
ConcBegin(t, round, step, signBytes) ==
    LET out == signMsg(pv, t, round, step, signBytes) IN
    /\ thr[t].pc \in {"idle", "returned"}
    /\ ncalls < MaxCalls
    /\ ncalls' = ncalls + 1
    /\ thr' = [thr EXCEPT ![t] =
                 IF out.fresh
                 THEN [pc |-> "signed", r |-> round, s |-> step, req |-> signBytes,
                       sig |-> out.sig, snap |-> <<>>]
                 ELSE IdleHandler]
    /\ UNCHANGED <<pv, file, res, granted, nodes, net>>

ConcSignVote(t) ==
    \E round \in SignRounds, type \in {PrevoteType, PrecommitType}, bid \in SignBlockIDs :
        ConcBegin(t, round, voteToStep(type), VoteSignBytes(type, t, round, bid, 0))

ConcSignProposal(t) ==
    \E round \in SignRounds :
        ConcBegin(t, round, stepPropose, ProposalSignBytes(t, round, -1, "A", 0))

\* saveSigned: storeSignState
ConcStore(t) ==
    /\ thr[t].pc = "signed"
    /\ pv' = storeSignState(pv, t, thr[t].r, thr[t].s, thr[t].req, thr[t].sig)
    /\ thr' = [thr EXCEPT ![t].pc = "stored"]
    /\ UNCHANGED <<file, res, granted, ncalls, nodes, net>>

\* Save: MarshalJSON of the state as it is now
ConcMarshal(t) ==
    /\ thr[t].pc = "stored"
    /\ thr' = [thr EXCEPT ![t].pc = "marshaled", ![t].snap = MarshalJSON(pv)]
    /\ UNCHANGED <<pv, file, res, granted, ncalls, nodes, net>>

\* Save: WriteFileAtomic of the marshalled bytes
ConcWrite(t) ==
    /\ thr[t].pc = "marshaled"
    /\ file' = thr[t].snap
    /\ thr' = [thr EXCEPT ![t].pc = "written"]
    /\ UNCHANGED <<pv, res, granted, ncalls, nodes, net>>

\* vote.Signature = sig; return nil: the signature is released to the caller
ConcReturn(t) ==
    /\ thr[t].pc = "written"
    /\ thr' = [thr EXCEPT ![t].pc = "returned"]
    /\ res' = [op |-> "SignVote", h |-> t, r |-> thr[t].r, s |-> thr[t].s,
               req |-> thr[t].req, err |-> ErrNone, fresh |-> TRUE,
               sig |-> thr[t].sig, ts |-> SignBytesTime(thr[t].req)]
    /\ UNCHANGED <<pv, file, granted, ncalls, nodes, net>>

ConcNext ==
    \E t \in Handlers :
        \/ ConcSignVote(t)
        \/ ConcSignProposal(t)
        \/ ConcStore(t)
        \/ ConcMarshal(t)
        \/ ConcWrite(t)
        \/ ConcReturn(t)

SpecSignerConc == ConcInit /\ [][ConcNext]_vars

\* ------------------------------------------------------------------------
\* Concurrent signing for one height.  A handler of the height signs under
\* the lock of its RoundState (handler 1), while the handler of the height
\* below, which holds its own lock only, runs enterNewRound(height + 1, 0)
\* after a commit with SkipTimeoutCommit and signs the proposal of round 0
\* in decideProposal (handler 2).
\* ------------------------------------------------------------------------
RaceHeight == 1

RaceBlockIDs == {"A", "B"}

\* signVote / signProposal up to Sign
RaceBegin(t, round, step, signBytes) ==
    LET out == signMsg(pv, RaceHeight, round, step, signBytes) IN
    /\ thr[t].pc \in {"idle", "returned"}
    /\ ncalls < MaxCalls
    /\ ncalls' = ncalls + 1
    /\ thr' = [thr EXCEPT ![t] =
                 IF out.fresh
                 THEN [pc |-> "signed", r |-> round, s |-> step, req |-> signBytes,
                       sig |-> out.sig, snap |-> <<>>]
                 ELSE IdleHandler]
    /\ UNCHANGED <<pv, file, res, granted, nodes, net>>

\* the handler of the height: signAddVote
RaceSignVote ==
    \E round \in SignRounds, type \in {PrevoteType, PrecommitType}, bid \in RaceBlockIDs :
        RaceBegin(1, round, voteToStep(type), VoteSignBytes(type, RaceHeight, round, bid, 0))

\* decideProposal of either handler; the other handler proposes in round 0
RaceSignProposal(t) ==
    \E round \in SignRounds, bid \in RaceBlockIDs :
        /\ t = 2 => round = 0
        /\ RaceBegin(t, round, stepPropose, ProposalSignBytes(RaceHeight, round, -1, bid, 0))

\* saveSigned: storeSignState
RaceStore(t) ==
    /\ thr[t].pc = "signed"
    /\ pv' = storeSignState(pv, RaceHeight, thr[t].r, thr[t].s, thr[t].req, thr[t].sig)
    /\ thr' = [thr EXCEPT ![t].pc = "stored"]
    /\ UNCHANGED <<file, res, granted, ncalls, nodes, net>>

\* the signature is released to the caller
RaceReturn(t) ==
    /\ thr[t].pc = "written"
    /\ thr' = [thr EXCEPT ![t].pc = "returned"]
    /\ res' = [op |-> "SignVote", h |-> RaceHeight, r |-> thr[t].r, s |-> thr[t].s,
               req |-> thr[t].req, err |-> ErrNone, fresh |-> TRUE,
               sig |-> thr[t].sig, ts |-> SignBytesTime(thr[t].req)]
    /\ granted' = granted \cup {[h |-> RaceHeight, r |-> thr[t].r, s |-> thr[t].s,
                                  req |-> thr[t].req]}
    /\ UNCHANGED <<pv, file, ncalls, nodes, net>>

RaceNext ==
    \/ RaceSignVote
    \/ \E t \in Handlers :
          \/ RaceSignProposal(t)
          \/ RaceStore(t)
          \/ ConcMarshal(t)
          \/ ConcWrite(t)
          \/ RaceReturn(t)

SpecSignerRace == ConcInit /\ [][RaceNext]_vars

\* ========================================================================
\* Part 2: the consensus coordinator (ConsensusState) and the per-height
\*         round machine of consensus/friday.
\*
\* A node is a record cs.  Every handler is an operator from cs to cs that
\* follows the handler's code, nested calls and deferred calls included.
\* ========================================================================

\* cstypes.RoundStepType
RoundStepNewHeight == 1
RoundStepNewRound == 2
RoundStepPropose == 3
RoundStepPrevote == 4
RoundStepPrevoteWait == 5
RoundStepPrecommit == 6
RoundStepPrecommitWait == 7
RoundStepCommit == 8

\* ------------------------------------------------------------------------
\* Blocks.  A block is the tuple of what its hash covers:
\* <<height, proposer, round of creation (standing for its time), LastBlockID>>,
\* and it is its own BlockID; the nil block and the zero BlockID are <<>>.
\* Blocks have one part, so a PartSetHeader is the BlockID as well.
\* ------------------------------------------------------------------------
NoBlock == <<>>

NilID == <<>>

MakeBlock(height, proposer, round, lastBlockID) == <<height, proposer, round, lastBlockID>>

BlockHeight(block) == block[1]

LastBlockID(block) == block[4]

Hash(block) == block

\* Block.HashesTo: false for the nil block and for the empty hash
HashesTo(block, hash) == block # NoBlock /\ hash # NilID /\ Hash(block) = hash

\* a PartSet: the header it was created from and whether its part has arrived
NoParts == [header |-> NilID, complete |-> FALSE, set |-> FALSE]

NewPartSetFromHeader(header) == [header |-> header, complete |-> FALSE, set |-> TRUE]

\* PartSet.HasHeader: false for the nil PartSet
HasHeader(parts, header) == parts.set /\ parts.header = header

\* the complete PartSet of a block
PartsOf(block) == [header |-> Hash(block), complete |-> TRUE, set |-> TRUE]

\* ------------------------------------------------------------------------
\* Validators and vote sets (types.ValidatorSet, HeightVoteSet, VoteSet)
\* ------------------------------------------------------------------------
ValOrder == <<"v1", "v2", "v3", "v4">>

RECURSIVE SumPower(_, _)
SumPower(validators, vals) ==
    IF vals = {} THEN 0
    ELSE LET v == CHOOSE x \in vals : TRUE IN
         validators[v] + SumPower(validators, vals \ {v})

TotalVotingPower(validators) == SumPower(validators, DOMAIN validators)

\* GetProposer after IncrementProposerPriority: the validators take turns
GetProposer(validators, height, round) ==
    LET order == SelectSeq(ValOrder, LAMBDA v : v \in DOMAIN validators) IN
    order[((height + round) % Len(order)) + 1]

\* the votes of one VoteSet
VotesOf(votes, type, round) == {v \in votes : v.Type = type /\ v.Round = round}

\* the voting power behind one BlockID in a VoteSet
PowerFor(validators, votes, type, round, blockID) ==
    SumPower(validators, {v.Val : v \in {w \in VotesOf(votes, type, round) : w.BlockID = blockID}})

IsQuorum(validators, power) == 3 * power > 2 * TotalVotingPower(validators)

\* VoteSet.HasTwoThirdsAny
HasTwoThirdsAny(validators, votes, type, round) ==
    IsQuorum(validators, SumPower(validators, {v.Val : v \in VotesOf(votes, type, round)}))

\* VoteSet.TwoThirdsMajority: <<whether there is one, its BlockID>>
Maj23Blocks(validators, votes, type, round) ==
    {b \in {v.BlockID : v \in VotesOf(votes, type, round)} :
        IsQuorum(validators, PowerFor(validators, votes, type, round, b))}

HasTwoThirdsMajority(validators, votes, type, round) ==
    Maj23Blocks(validators, votes, type, round) # {}

TwoThirdsMajority(validators, votes, type, round) ==
    IF HasTwoThirdsMajority(validators, votes, type, round)
    THEN CHOOSE b \in Maj23Blocks(validators, votes, type, round) : TRUE
    ELSE NilID

\* ------------------------------------------------------------------------
\* RoundState, timeouts and the node
\* ------------------------------------------------------------------------
NoProposal == [Round |-> -1, POLRound |-> -1, BlockID |-> NilID, set |-> FALSE]

\* updateNewHeight: the RoundState stored for a new height
NewRoundState ==
    [Round |-> 0, Step |-> RoundStepNewHeight,
     Proposal |-> NoProposal, ProposalBlock |-> NoBlock, ProposalBlockParts |-> NoParts,
     LockedRound |-> -1, LockedBlock |-> NoBlock, LockedBlockParts |-> NoParts,
     ValidRound |-> -1, ValidBlock |-> NoBlock, ValidBlockParts |-> NoParts,
     Votes |-> {}, CommitRound |-> -1, LastCommit |-> FALSE,
     TriggeredTimeoutPrecommit |-> FALSE]

\* a TimeoutTicker: the latest timeout it was given and whether it is still
\* to fire
NoTimeout == [Round |-> -1, Step |-> 0, pending |-> FALSE]

\* NewConsensusState for validator me (updateToState of the genesis state,
\* which creates the RoundState and the ticker of height 1) and OnStart
\* (scheduleNewHeightRound0 of height 1)
NewConsensusState(me, validators, lenULB) ==
    [me |-> me,
     state |-> [LastBlockHeight |-> 0, LenULB |-> lenULB, Validators |-> validators],
     blockStore |-> EmptyMap,
     roundStates |-> MapStore(EmptyMap, 1, NewRoundState),
     timeoutTickers |-> MapStore(EmptyMap, 1, NoTimeout),
     privValidator |-> NewSignState,
     internalMsgQueue |-> <<>>,
     newHeightPollers |-> {1},
     waitFinalize |-> {},
     rangeOrder |-> <<>>,
     panicked |-> FALSE,
     trace |-> <<>>,
     evpool |-> {},
     voteErr |-> ErrNone,
     conflicts |-> {}]

HasRoundState(cs, height) == height \in DOMAIN cs.roundStates

\* BlockStore.Height
StoreHeight(cs) ==
    IF DOMAIN cs.blockStore = {} THEN 0
    ELSE CHOOSE h \in DOMAIN cs.blockStore : \A g \in DOMAIN cs.blockStore : g <= h

\* BlockStore.LoadBlockMeta(height).BlockID
LoadBlockID(cs, height) ==
    IF height \in DOMAIN cs.blockStore THEN Hash(cs.blockStore[height]) ELSE NilID

Panic(cs) == [cs EXCEPT !.panicked = TRUE]

\* scheduleTimeout: the ticker of the height takes a timeout that is later
\* than the one it was given last and drops an older one
scheduleTimeout(cs, height, round, step) ==
    IF height \notin DOMAIN cs.timeoutTickers THEN Panic(cs)
    ELSE LET ti == cs.timeoutTickers[height] IN
         IF round < ti.Round \/ (round = ti.Round /\ ti.Step > 0 /\ step <= ti.Step)
         THEN cs
         ELSE [cs EXCEPT !.timeoutTickers[height] =
                            [Round |-> round, Step |-> step, pending |-> TRUE]]

updateRoundStep(cs, height, round, step) ==
    [cs EXCEPT !.roundStates[height].Round = round, !.roundStates[height].Step = step]

\* ------------------------------------------------------------------------
\* Messages: proposals, block parts and votes have one shape
\* ------------------------------------------------------------------------
VoteMessage(type, height, round, blockID, val) ==
    [kind |-> "vote", Type |-> type, Height |-> height, Round |-> round,
     POLRound |-> -1, BlockID |-> blockID, Block |-> NoBlock, Val |-> val]

ProposalMessage(height, round, polRound, blockID, val) ==
    [kind |-> "proposal", Type |-> ProposalType, Height |-> height, Round |-> round,
     POLRound |-> polRound, BlockID |-> blockID, Block |-> NoBlock, Val |-> val]

BlockPartMessage(height, round, block) ==
    [kind |-> "part", Type |-> "part", Height |-> height, Round |-> round,
     POLRound |-> -1, BlockID |-> Hash(block), Block |-> block, Val |-> "peer"]

\* the internal queue is a channel: first in, first out
sendInternalMessage(cs, msgs) == [cs EXCEPT !.internalMsgQueue = @ \o msgs]

\* signAddVote with signVote: the vote carries the round of the RoundState
signAddVote(cs, height, type, blockID) ==
    LET rs == cs.roundStates[height]
        vote == [Type |-> type, Height |-> height, Round |-> rs.Round,
                 BlockID |-> blockID, Timestamp |-> 0]
        out == signVote(cs.privValidator, vote) IN
    IF cs.me \notin DOMAIN cs.state.Validators THEN cs
    ELSE IF out.err = ErrNone
         THEN sendInternalMessage([cs EXCEPT !.privValidator = out.ss],
                                  <<VoteMessage(type, height, rs.Round, blockID, cs.me)>>)
         ELSE cs

\* validatePreviousBlock: TRUE when it returns nil
validatePreviousBlock(cs, block) ==
    LET previousHeight == BlockHeight(block) - 1 IN
    IF previousHeight > cs.state.LastBlockHeight
    THEN IF ~HasRoundState(cs, previousHeight) THEN FALSE
         ELSE LET prevRs == cs.roundStates[previousHeight] IN
              /\ LastBlockID(block) = Hash(prevRs.ProposalBlock)
              /\ LastBlockID(block) = prevRs.ProposalBlockParts.header
    ELSE IF previousHeight > 0
         THEN LastBlockID(block) = LoadBlockID(cs, previousHeight)
         ELSE TRUE

\* BlockExecutor.ValidateBlock (fridayValidateBlock): "ok", "mismatch" for
\* ErrLastBlockIDMismatch, "invalid" for every other error
ValidateBlock(cs, block) ==
    LET prevBlockHeight == BlockHeight(block) - 1 IN
    IF BlockHeight(block) <= cs.state.LastBlockHeight THEN "invalid"
    ELSE IF /\ prevBlockHeight > 0
            /\ prevBlockHeight <= cs.state.LastBlockHeight
            /\ LastBlockID(block) # LoadBlockID(cs, prevBlockHeight)
         THEN "mismatch"
         ELSE "ok"

Unlock(cs, height) ==
    [cs EXCEPT !.roundStates[height].LockedRound = -1,
               !.roundStates[height].LockedBlock = NoBlock,
               !.roundStates[height].LockedBlockParts = NoParts]

\* the reset that leaves the valid block in place (fault injection)
ResetValid_RoundOnly(cs, height) ==
    [cs EXCEPT !.roundStates[height].ValidRound = -1]

ResetValid(cs, height) ==
    [cs EXCEPT !.roundStates[height].ValidRound = -1,
               !.roundStates[height].ValidBlock = NoBlock,
               !.roundStates[height].ValidBlockParts = NoParts]

\* defaultDoPrevote without the check of the link of the proposal block to
\* the block of the height before (fault injection)
defaultDoPrevote_NoLinkCheck(cs, height, round) ==
    LET rs == cs.roundStates[height]
        locked == rs.LockedBlock # NoBlock /\ validatePreviousBlock(cs, rs.LockedBlock)
        \* a locked block whose previous-block link is invalid is unlocked
        c1 == IF rs.LockedBlock # NoBlock /\ ~locked THEN Unlock(cs, height) ELSE cs IN
    IF locked THEN signAddVote(cs, height, PrevoteType, Hash(rs.LockedBlock))
    ELSE IF rs.ProposalBlock = NoBlock THEN signAddVote(c1, height, PrevoteType, NilID)
    ELSE IF ValidateBlock(cs, rs.ProposalBlock) # "ok"
         THEN signAddVote(IF ValidateBlock(cs, rs.ProposalBlock) = "mismatch"
                          THEN ResetValid(c1, height) ELSE c1,
                          height, PrevoteType, NilID)
    ELSE signAddVote(c1, height, PrevoteType, Hash(rs.ProposalBlock))

defaultDoPrevote(cs, height, round) ==
    LET rs == cs.roundStates[height]
        locked == rs.LockedBlock # NoBlock /\ validatePreviousBlock(cs, rs.LockedBlock)
        \* a locked block whose previous-block link is invalid is unlocked
        c1 == IF rs.LockedBlock # NoBlock /\ ~locked THEN Unlock(cs, height) ELSE cs IN
    IF locked THEN signAddVote(cs, height, PrevoteType, Hash(rs.LockedBlock))
    ELSE IF rs.ProposalBlock = NoBlock THEN signAddVote(c1, height, PrevoteType, NilID)
    ELSE IF ValidateBlock(cs, rs.ProposalBlock) # "ok"
         THEN signAddVote(IF ValidateBlock(cs, rs.ProposalBlock) = "mismatch"
                          THEN ResetValid(c1, height) ELSE c1,
                          height, PrevoteType, NilID)
    ELSE IF ~validatePreviousBlock(cs, rs.ProposalBlock)
         THEN signAddVote(ResetValid(c1, height), height, PrevoteType, NilID)
    ELSE signAddVote(c1, height, PrevoteType, Hash(rs.ProposalBlock))

enterPrevote(cs, height, round) ==
    IF cs.panicked \/ ~HasRoundState(cs, height) THEN cs
    ELSE LET rs == cs.roundStates[height] IN
         IF round < rs.Round \/ (rs.Round = round /\ RoundStepPrevote <= rs.Step) THEN cs
         ELSE updateRoundStep(defaultDoPrevote(cs, height, round),
                              height, round, RoundStepPrevote)

\* createProposalBlock: NoBlock when it returns nil
createProposalBlock(cs, height, round) ==
    LET rs == cs.roundStates[height] IN
    IF height > cs.state.LenULB /\ ~rs.LastCommit THEN NoBlock
    ELSE IF height = 1 THEN MakeBlock(height, cs.me, round, NilID)
    ELSE IF cs.state.LastBlockHeight >= height - 1
         THEN MakeBlock(height, cs.me, round, LoadBlockID(cs, height - 1))
    ELSE IF HasRoundState(cs, height - 1) /\ cs.roundStates[height - 1].ProposalBlock # NoBlock
         THEN MakeBlock(height, cs.me, round, Hash(cs.roundStates[height - 1].ProposalBlock))
    ELSE NoBlock

defaultDecideProposal(cs, height, round) ==
    LET rs == cs.roundStates[height]
        block == IF rs.ValidBlock # NoBlock /\ validatePreviousBlock(cs, rs.ValidBlock)
                 THEN rs.ValidBlock
                 ELSE createProposalBlock(cs, height, round)
        proposal == [Height |-> height, Round |-> round, POLRound |-> rs.ValidRound,
                     BlockID |-> Hash(block), Timestamp |-> 0]
        out == signProposal(cs.privValidator, proposal) IN
    IF block = NoBlock THEN cs
    ELSE IF out.err = ErrNone
         THEN sendInternalMessage([cs EXCEPT !.privValidator = out.ss],
                  <<ProposalMessage(height, round, rs.ValidRound, Hash(block), cs.me),
                    BlockPartMessage(height, rs.Round, block)>>)
         ELSE cs

isProposalComplete(cs, height) ==
    LET rs == cs.roundStates[height] IN
    /\ rs.Proposal.set
    /\ rs.ProposalBlock # NoBlock
    /\ \/ rs.Proposal.POLRound < 0
       \/ HasTwoThirdsMajority(cs.state.Validators, rs.Votes, PrevoteType, rs.Proposal.POLRound)

enterPropose(cs, height, round) ==
    IF cs.panicked \/ ~HasRoundState(cs, height) THEN cs
    ELSE LET rs == cs.roundStates[height] IN
         IF round < rs.Round \/ (rs.Round = round /\ RoundStepPropose <= rs.Step) THEN cs
         ELSE LET c1 == scheduleTimeout(cs, height, round, RoundStepPropose)
                  c2 == IF /\ cs.me \in DOMAIN cs.state.Validators
                           /\ GetProposer(cs.state.Validators, height, round) = cs.me
                        THEN defaultDecideProposal(c1, height, round)
                        ELSE c1
                  \* deferred
                  c3 == updateRoundStep(c2, height, round, RoundStepPropose) IN
              IF isProposalComplete(c3, height)
              THEN enterPrevote(c3, height, c3.roundStates[height].Round)
              ELSE c3

\* enterNewRound that takes a round below the round of the height (fault
\* injection)
enterNewRound_AnyRound(cs, height, round) ==
    IF cs.panicked \/ ~HasRoundState(cs, height) THEN cs
    ELSE LET rs == cs.roundStates[height] IN
         IF rs.Round = round /\ rs.Step # RoundStepNewHeight THEN cs
         ELSE LET c1 == updateRoundStep(cs, height, round, RoundStepNewRound)
                  c2 == IF round = 0 THEN c1
                        ELSE [c1 EXCEPT !.roundStates[height].Proposal = NoProposal,
                                        !.roundStates[height].ProposalBlock = NoBlock,
                                        !.roundStates[height].ProposalBlockParts = NoParts]
                  c3 == [c2 EXCEPT !.roundStates[height].TriggeredTimeoutPrecommit = FALSE] IN
              \* CreateEmptyBlocks: no wait for txs
              enterPropose(c3, height, round)

enterNewRound(cs, height, round) ==
    IF cs.panicked \/ ~HasRoundState(cs, height) THEN cs
    ELSE LET rs == cs.roundStates[height] IN
         IF round < rs.Round \/ (rs.Round = round /\ rs.Step # RoundStepNewHeight) THEN cs
         ELSE LET c1 == updateRoundStep(cs, height, round, RoundStepNewRound)
                  c2 == IF round = 0 THEN c1
                        ELSE [c1 EXCEPT !.roundStates[height].Proposal = NoProposal,
                                        !.roundStates[height].ProposalBlock = NoBlock,
                                        !.roundStates[height].ProposalBlockParts = NoParts]
                  c3 == [c2 EXCEPT !.roundStates[height].TriggeredTimeoutPrecommit = FALSE] IN
              \* CreateEmptyBlocks: no wait for txs
              enterPropose(c3, height, round)

enterPrevoteWait(cs, height, round) ==
    IF cs.panicked \/ ~HasRoundState(cs, height) THEN cs
    ELSE LET rs == cs.roundStates[height] IN
         IF round < rs.Round \/ (rs.Round = round /\ RoundStepPrevoteWait <= rs.Step) THEN cs
         ELSE IF ~HasTwoThirdsAny(cs.state.Validators, rs.Votes, PrevoteType, round)
              THEN Panic(cs)
              ELSE updateRoundStep(scheduleTimeout(cs, height, round, RoundStepPrevoteWait),
                                   height, round, RoundStepPrevoteWait)

\* doPrecommit that precommits the proposal block without locking it (fault
\* injection)
doPrecommit_NoLock(cs, height, round) ==
    LET rs == cs.roundStates[height]
        ok == HasTwoThirdsMajority(cs.state.Validators, rs.Votes, PrevoteType, round)
        blockID == TwoThirdsMajority(cs.state.Validators, rs.Votes, PrevoteType, round) IN
    IF ~ok THEN signAddVote(cs, height, PrecommitType, NilID)
    ELSE IF blockID = NilID
         THEN signAddVote(Unlock(cs, height), height, PrecommitType, NilID)
    ELSE IF HashesTo(rs.LockedBlock, blockID)
         THEN IF ~validatePreviousBlock(cs, rs.LockedBlock)
              THEN signAddVote(Unlock(cs, height), height, PrecommitType, NilID)
              ELSE signAddVote([cs EXCEPT !.roundStates[height].LockedRound = round],
                               height, PrecommitType, blockID)
    ELSE IF HashesTo(rs.ProposalBlock, blockID)
         THEN IF ValidateBlock(cs, rs.ProposalBlock) = "mismatch"
              THEN signAddVote(ResetValid(cs, height), height, PrecommitType, NilID)
              ELSE IF ValidateBlock(cs, rs.ProposalBlock) = "invalid" THEN Panic(cs)
              ELSE IF ~validatePreviousBlock(cs, rs.ProposalBlock)
              THEN signAddVote(ResetValid(cs, height), height, PrecommitType, NilID)
              ELSE signAddVote(cs, height, PrecommitType, blockID)
    ELSE LET c1 == Unlock(cs, height)
             c2 == IF ~HasHeader(rs.ProposalBlockParts, blockID)
                   THEN [c1 EXCEPT !.roundStates[height].ProposalBlock = NoBlock,
                                   !.roundStates[height].ProposalBlockParts =
                                        NewPartSetFromHeader(blockID)]
                   ELSE c1 IN
         signAddVote(c2, height, PrecommitType, NilID)

\* the body of enterPrecommit, before the deferred updateRoundStep
doPrecommit(cs, height, round) ==
    LET rs == cs.roundStates[height]
        ok == HasTwoThirdsMajority(cs.state.Validators, rs.Votes, PrevoteType, round)
        blockID == TwoThirdsMajority(cs.state.Validators, rs.Votes, PrevoteType, round) IN
    IF ~ok THEN signAddVote(cs, height, PrecommitType, NilID)
    ELSE IF blockID = NilID
         THEN signAddVote(Unlock(cs, height), height, PrecommitType, NilID)
    ELSE IF HashesTo(rs.LockedBlock, blockID)
         THEN IF ~validatePreviousBlock(cs, rs.LockedBlock)
              THEN signAddVote(Unlock(cs, height), height, PrecommitType, NilID)
              ELSE signAddVote([cs EXCEPT !.roundStates[height].LockedRound = round],
                               height, PrecommitType, blockID)
    ELSE IF HashesTo(rs.ProposalBlock, blockID)
         THEN IF ValidateBlock(cs, rs.ProposalBlock) = "mismatch"
              THEN signAddVote(ResetValid(cs, height), height, PrecommitType, NilID)
              ELSE IF ValidateBlock(cs, rs.ProposalBlock) = "invalid" THEN Panic(cs)
              ELSE IF ~validatePreviousBlock(cs, rs.ProposalBlock)
              THEN signAddVote(ResetValid(cs, height), height, PrecommitType, NilID)
              ELSE signAddVote([cs EXCEPT !.roundStates[height].LockedRound = round,
                                          !.roundStates[height].LockedBlock = rs.ProposalBlock,
                                          !.roundStates[height].LockedBlockParts =
                                              rs.ProposalBlockParts],
                               height, PrecommitType, blockID)
    ELSE LET c1 == Unlock(cs, height)
             c2 == IF ~HasHeader(rs.ProposalBlockParts, blockID)
                   THEN [c1 EXCEPT !.roundStates[height].ProposalBlock = NoBlock,
                                   !.roundStates[height].ProposalBlockParts =
                                        NewPartSetFromHeader(blockID)]
                   ELSE c1 IN
         signAddVote(c2, height, PrecommitType, NilID)

enterPrecommit(cs, height, round) ==
    IF cs.panicked \/ ~HasRoundState(cs, height) THEN cs
    ELSE LET rs == cs.roundStates[height] IN
         IF round < rs.Round \/ (rs.Round = round /\ RoundStepPrecommit <= rs.Step) THEN cs
         ELSE LET c1 == doPrecommit(cs, height, round) IN
              IF c1.panicked THEN c1
              ELSE updateRoundStep(c1, height, round, RoundStepPrecommit)

enterPrecommitWait(cs, height, round) ==
    IF cs.panicked \/ ~HasRoundState(cs, height) THEN cs
    ELSE LET rs == cs.roundStates[height] IN
         IF round < rs.Round \/ (rs.Round = round /\ rs.TriggeredTimeoutPrecommit) THEN cs
         ELSE IF ~HasTwoThirdsAny(cs.state.Validators, rs.Votes, PrecommitType, round)
              THEN Panic(cs)
              ELSE [scheduleTimeout(cs, height, round, RoundStepPrecommitWait)
                       EXCEPT !.roundStates[height].TriggeredTimeoutPrecommit = TRUE]

\* ------------------------------------------------------------------------
\* Commit and finalize
\* ------------------------------------------------------------------------
Record(cs, kind, height) ==
    [cs EXCEPT !.trace = Append(@, [kind |-> kind, height |-> height,
                                    last |-> cs.state.LastBlockHeight])]

\* updateNewHeight that makes no ticker for the height (fault injection)
updateNewHeight_NoTicker(cs, height) ==
    LET ulbHeight == height - cs.state.LenULB
        hasCommit == /\ height > cs.state.LenULB
                     /\ HasRoundState(cs, ulbHeight)
                     /\ cs.roundStates[ulbHeight].CommitRound > -1 IN
    IF HasRoundState(cs, height) THEN cs
    ELSE [cs EXCEPT !.roundStates =
              MapStore(@, height, [NewRoundState EXCEPT !.LastCommit = hasCommit])]

\* updateNewHeight: LoadOrStore of the RoundState, and the ticker if absent
updateNewHeight(cs, height) ==
    LET ulbHeight == height - cs.state.LenULB
        hasCommit == /\ height > cs.state.LenULB
                     /\ HasRoundState(cs, ulbHeight)
                     /\ cs.roundStates[ulbHeight].CommitRound > -1
        c1 == IF HasRoundState(cs, height) THEN cs
              ELSE [cs EXCEPT !.roundStates =
                        MapStore(@, height, [NewRoundState EXCEPT !.LastCommit = hasCommit])]
        c2 == IF height \in DOMAIN cs.timeoutTickers THEN c1
              ELSE [c1 EXCEPT !.timeoutTickers = MapStore(@, height, NoTimeout)] IN
    IF /\ hasCommit
       /\ ~HasTwoThirdsMajority(cs.state.Validators, cs.roundStates[ulbHeight].Votes,
                                PrecommitType, cs.roundStates[ulbHeight].CommitRound)
    THEN Panic(cs)
    ELSE c2

\* updateToState to the state that has lastBlockHeight as its last block
updateToState(cs, lastBlockHeight) ==
    LET height == cs.state.LastBlockHeight + 1 IN
    IF ~HasRoundState(cs, height) THEN Panic(cs)
    ELSE IF cs.roundStates[height].CommitRound > -1 /\ height # lastBlockHeight THEN Panic(cs)
    ELSE IF lastBlockHeight <= cs.state.LastBlockHeight THEN cs
    ELSE updateNewHeight(
             [Record(cs, "promote", lastBlockHeight)
                 EXCEPT !.state.LastBlockHeight = lastBlockHeight],
             lastBlockHeight + 1)

\* cleanupFinalizedRoundState that leaves the ticker of the height in the map
\* (fault injection)
cleanupFinalizedRoundState_KeepTicker(cs, height) ==
    LET ss == cs.privValidator
        order == SelectSeq(cs.rangeOrder, LAMBDA h : h \in DOMAIN ss.HeightSignStateMap)
        out == setImmutableHeight(ss, height, order) IN
    IF StoreHeight(cs) < height THEN Panic(cs)
    ELSE IF out.err # ErrNone
         THEN Panic([cs EXCEPT !.roundStates = MapDelete(@, {height})])
         ELSE [cs EXCEPT !.roundStates = MapDelete(@, {height}),
                         !.privValidator = out.ss]

cleanupFinalizedRoundState(cs, height) ==
    LET ss == cs.privValidator
        order == SelectSeq(cs.rangeOrder, LAMBDA h : h \in DOMAIN ss.HeightSignStateMap)
        out == setImmutableHeight(ss, height, order) IN
    IF StoreHeight(cs) < height THEN Panic(cs)
    ELSE IF out.err # ErrNone
         THEN Panic([cs EXCEPT !.roundStates = MapDelete(@, {height}),
                               !.timeoutTickers = MapDelete(@, {height})])
         ELSE [cs EXCEPT !.roundStates = MapDelete(@, {height}),
                         !.timeoutTickers = MapDelete(@, {height}),
                         !.privValidator = out.ss]

\* SaveBlock, the EndHeight record of the WAL, ApplyBlock and updateToState,
\* then the cleanup of the height that leaves the window
saveAndApply(cs, height) ==
    LET rs == cs.roundStates[height]
        block == rs.ProposalBlock
        c1 == IF StoreHeight(cs) < BlockHeight(block)
              THEN [Record(cs, "save", height)
                       EXCEPT !.blockStore = MapStore(@, BlockHeight(block), block)]
              ELSE cs
        c2 == Record(c1, "end", height)
        c3 == [c2 EXCEPT !.roundStates[height].CommitRound = rs.Round]
        c4 == updateToState(c3, height) IN
    IF ~c4.panicked /\ height > cs.state.LenULB
    THEN cleanupFinalizedRoundState(c4, height - cs.state.LenULB)
    ELSE c4

\* finalizeCommit from the end of its wait for the previous height
finalizeCommitResume(cs, height) ==
    LET rs == cs.roundStates[height]
        c0 == [cs EXCEPT !.waitFinalize = @ \ {height}] IN
    IF ValidateBlock(cs, rs.ProposalBlock) = "mismatch"
    THEN enterNewRound(Unlock(c0, height), height, rs.Round + 1)
    ELSE IF ValidateBlock(cs, rs.ProposalBlock) = "invalid" THEN Panic(c0)
    ELSE saveAndApply(c0, height)

\* the checks finalizeCommit makes before it waits
CanFinalize(cs, height) ==
    LET rs == cs.roundStates[height]
        blockID == TwoThirdsMajority(cs.state.Validators, rs.Votes, PrecommitType, rs.Round) IN
    /\ HasTwoThirdsMajority(cs.state.Validators, rs.Votes, PrecommitType, rs.Round)
    /\ HasHeader(rs.ProposalBlockParts, blockID)
    /\ HashesTo(rs.ProposalBlock, blockID)

\* finalizeCommit that does not wait for the previous height (fault injection)
finalizeCommit_NoWait(cs, height) ==
    IF cs.panicked \/ ~HasRoundState(cs, height) THEN cs
    ELSE IF cs.roundStates[height].Step # RoundStepCommit THEN cs
    ELSE IF ~CanFinalize(cs, height) THEN Panic(cs)
    ELSE finalizeCommitResume(cs, height)

\* finalizeCommit that neither waits nor looks at what is already
\* finalized (fault injection)
finalizeCommit_Again(cs, height) ==
    IF cs.panicked \/ ~HasRoundState(cs, height) THEN cs
    ELSE IF cs.roundStates[height].Step # RoundStepCommit THEN cs
    ELSE IF ~CanFinalize(cs, height) THEN Panic(cs)
    ELSE [Record(Record(cs, "save", height), "promote", height)
             EXCEPT !.blockStore = MapStore(@, height, cs.roundStates[height].ProposalBlock),
                    !.state.LastBlockHeight = height]

\* finalizeCommit: a call for a height other than LastBlockHeight + 1 waits,
\* holding the lock of its RoundState
finalizeCommit(cs, height) ==
    IF cs.panicked \/ ~HasRoundState(cs, height) THEN cs
    ELSE IF cs.roundStates[height].Step # RoundStepCommit THEN cs
    ELSE IF ~CanFinalize(cs, height) THEN Panic(cs)
    ELSE IF height # cs.state.LastBlockHeight + 1
         THEN [Record(cs, "wait", height) EXCEPT !.waitFinalize = @ \cup {height}]
         ELSE finalizeCommitResume(cs, height)

tryFinalizeCommit(cs, height) ==
    IF cs.panicked \/ ~HasRoundState(cs, height) THEN cs
    ELSE LET rs == cs.roundStates[height]
             blockID == TwoThirdsMajority(cs.state.Validators, rs.Votes,
                                          PrecommitType, rs.Round) IN
         IF blockID = NilID \/ ~HashesTo(rs.ProposalBlock, blockID) THEN cs
         ELSE finalizeCommit(cs, height)

enterCommit(cs, height, commitRound) ==
    IF cs.panicked \/ ~HasRoundState(cs, height) THEN cs
    ELSE LET rs == cs.roundStates[height]
             blockID == TwoThirdsMajority(cs.state.Validators, rs.Votes,
                                          PrecommitType, commitRound)
             c1 == IF HashesTo(rs.LockedBlock, blockID)
                   THEN [cs EXCEPT !.roundStates[height].ProposalBlock = rs.LockedBlock,
                                   !.roundStates[height].ProposalBlockParts =
                                        PartsOf(rs.LockedBlock)]
                   ELSE cs
             r1 == c1.roundStates[height]
             c2 == IF /\ ~HashesTo(r1.ProposalBlock, blockID)
                      /\ ~HasHeader(r1.ProposalBlockParts, blockID)
                   THEN [c1 EXCEPT !.roundStates[height].ProposalBlock = NoBlock,
                                   !.roundStates[height].ProposalBlockParts =
                                        NewPartSetFromHeader(blockID)]
                   ELSE c1 IN
         IF commitRound # rs.Round \/ RoundStepCommit <= rs.Step THEN cs
         ELSE IF ~HasTwoThirdsMajority(cs.state.Validators, rs.Votes,
                                       PrecommitType, commitRound)
              THEN Panic(cs)
              \* deferred: updateRoundStep, tryFinalizeCommit
              ELSE tryFinalizeCommit(updateRoundStep(c2, height, rs.Round, RoundStepCommit),
                                     height)

\* ------------------------------------------------------------------------
\* Handlers of messages, timeouts and new heights
\* ------------------------------------------------------------------------

\* scheduleNewHeightRound0: a goroutine that polls until the height is within
\* LenULB of the last finalized height and then signals the new height
scheduleNewHeightRound0(cs, height) ==
    IF cs.state.LastBlockHeight < height /\ height <= MaxHeight
    THEN [cs EXCEPT !.newHeightPollers = @ \cup {height}]
    ELSE cs

defaultSetProposal(cs, proposal) ==
    IF cs.panicked \/ ~HasRoundState(cs, proposal.Height) THEN cs
    ELSE LET rs == cs.roundStates[proposal.Height] IN
         IF rs.Proposal.set \/ proposal.Round # rs.Round THEN cs
         ELSE IF proposal.POLRound < -1
                 \/ (proposal.POLRound >= 0 /\ proposal.POLRound >= proposal.Round) THEN cs
         \* the signature is the proposer's
         ELSE IF proposal.Val # GetProposer(cs.state.Validators, proposal.Height, rs.Round)
              THEN cs
         ELSE [cs EXCEPT !.roundStates[proposal.Height].Proposal =
                              [Round |-> proposal.Round, POLRound |-> proposal.POLRound,
                               BlockID |-> proposal.BlockID, set |-> TRUE],
                         !.roundStates[proposal.Height].ProposalBlockParts =
                              IF rs.ProposalBlockParts.set THEN @
                              ELSE NewPartSetFromHeader(proposal.BlockID)]

\* addProposalBlockPart whose AddPart takes a part it already has (fault
\* injection)
addProposalBlockPart_Readd(cs, msg) ==
    IF cs.panicked \/ ~HasRoundState(cs, msg.Height) THEN cs
    ELSE LET height == msg.Height
             rs == cs.roundStates[height]
             \* AddPart: the part proves itself against the header
             added == /\ rs.ProposalBlockParts.set
                      /\ rs.ProposalBlockParts.header = Hash(msg.Block)
             c1 == [cs EXCEPT !.roundStates[height].ProposalBlockParts.complete = TRUE,
                              !.roundStates[height].ProposalBlock = msg.Block]
             c2 == scheduleNewHeightRound0(c1, height + 1)
             blockID == TwoThirdsMajority(cs.state.Validators, rs.Votes, PrevoteType, rs.Round)
             hasTwoThirds == HasTwoThirdsMajority(cs.state.Validators, rs.Votes,
                                                  PrevoteType, rs.Round)
             c3 == IF /\ hasTwoThirds /\ blockID # NilID /\ rs.ValidRound < rs.Round
                      /\ HashesTo(msg.Block, blockID) /\ validatePreviousBlock(c2, msg.Block)
                   THEN [c2 EXCEPT !.roundStates[height].ValidRound = rs.Round,
                                   !.roundStates[height].ValidBlock = msg.Block,
                                   !.roundStates[height].ValidBlockParts =
                                       c2.roundStates[height].ProposalBlockParts]
                   ELSE c2
             c4 == enterPrevote(c3, height, rs.Round) IN
         IF ~added THEN cs
         ELSE IF rs.Step <= RoundStepPropose /\ isProposalComplete(c3, height)
              THEN IF hasTwoThirds THEN enterPrecommit(c4, height, rs.Round) ELSE c4
         ELSE IF rs.Step = RoundStepCommit THEN tryFinalizeCommit(c3, height)
         ELSE c3

addProposalBlockPart(cs, msg) ==
    IF cs.panicked \/ ~HasRoundState(cs, msg.Height) THEN cs
    ELSE LET height == msg.Height
             rs == cs.roundStates[height]
             \* AddPart: the part proves itself against the header
             added == /\ rs.ProposalBlockParts.set
                      /\ ~rs.ProposalBlockParts.complete
                      /\ rs.ProposalBlockParts.header = Hash(msg.Block)
             c1 == [cs EXCEPT !.roundStates[height].ProposalBlockParts.complete = TRUE,
                              !.roundStates[height].ProposalBlock = msg.Block]
             c2 == scheduleNewHeightRound0(c1, height + 1)
             blockID == TwoThirdsMajority(cs.state.Validators, rs.Votes, PrevoteType, rs.Round)
             hasTwoThirds == HasTwoThirdsMajority(cs.state.Validators, rs.Votes,
                                                  PrevoteType, rs.Round)
             c3 == IF /\ hasTwoThirds /\ blockID # NilID /\ rs.ValidRound < rs.Round
                      /\ HashesTo(msg.Block, blockID) /\ validatePreviousBlock(c2, msg.Block)
                   THEN [c2 EXCEPT !.roundStates[height].ValidRound = rs.Round,
                                   !.roundStates[height].ValidBlock = msg.Block,
                                   !.roundStates[height].ValidBlockParts =
                                       c2.roundStates[height].ProposalBlockParts]
                   ELSE c2
             c4 == enterPrevote(c3, height, rs.Round) IN
         IF ~added THEN cs
         ELSE IF rs.Step <= RoundStepPropose /\ isProposalComplete(c3, height)
              THEN IF hasTwoThirds THEN enterPrecommit(c4, height, rs.Round) ELSE c4
         ELSE IF rs.Step = RoundStepCommit THEN tryFinalizeCommit(c3, height)
         ELSE c3

\* VoteSet.AddVote: the first vote of a validator for a type and round
VoteAdded(cs, vote) ==
    /\ vote.Val \in DOMAIN cs.state.Validators
    /\ ~\E v \in cs.roundStates[vote.Height].Votes :
            v.Type = vote.Type /\ v.Round = vote.Round /\ v.Val = vote.Val

\* addVote of a prevote that does not skip to the round of the vote (fault
\* injection)
addPrevote_NoSkip(cs, height, round) ==
    LET rs == cs.roundStates[height]
        ok == HasTwoThirdsMajority(cs.state.Validators, rs.Votes, PrevoteType, round)
        blockID == TwoThirdsMajority(cs.state.Validators, rs.Votes, PrevoteType, round)
        any == HasTwoThirdsAny(cs.state.Validators, rs.Votes, PrevoteType, round)
        c1 == IF /\ ok /\ rs.LockedBlock # NoBlock /\ rs.LockedRound < round
                 /\ round <= rs.Round /\ ~HashesTo(rs.LockedBlock, blockID)
              THEN Unlock(cs, height) ELSE cs
        c2 == IF ok /\ blockID # NilID /\ rs.ValidRound < round /\ round = rs.Round
              THEN [c1 EXCEPT
                      !.roundStates[height].ValidRound =
                          IF HashesTo(rs.ProposalBlock, blockID) THEN round ELSE @,
                      !.roundStates[height].ValidBlock =
                          IF HashesTo(rs.ProposalBlock, blockID) THEN rs.ProposalBlock ELSE @,
                      !.roundStates[height].ValidBlockParts =
                          IF HashesTo(rs.ProposalBlock, blockID) THEN rs.ProposalBlockParts ELSE @,
                      !.roundStates[height].ProposalBlock =
                          IF HashesTo(rs.ProposalBlock, blockID) THEN @ ELSE NoBlock,
                      !.roundStates[height].ProposalBlockParts =
                          IF HasHeader(rs.ProposalBlockParts, blockID) THEN @
                          ELSE NewPartSetFromHeader(blockID)]
              ELSE c1 IN
    IF rs.Round = round /\ RoundStepPrevote <= rs.Step
         THEN IF ok /\ (isProposalComplete(c2, height) \/ blockID = NilID)
              THEN enterPrecommit(c2, height, round)
              ELSE IF any THEN enterPrevoteWait(c2, height, round) ELSE c2
    ELSE IF rs.Proposal.set /\ 0 <= rs.Proposal.POLRound /\ rs.Proposal.POLRound = round
         THEN IF isProposalComplete(c2, height)
              THEN enterPrevote(c2, height, rs.Round) ELSE c2
    ELSE c2

\* addVote, a prevote: the state after the vote is in the vote set
addPrevote(cs, height, round) ==
    LET rs == cs.roundStates[height]
        ok == HasTwoThirdsMajority(cs.state.Validators, rs.Votes, PrevoteType, round)
        blockID == TwoThirdsMajority(cs.state.Validators, rs.Votes, PrevoteType, round)
        any == HasTwoThirdsAny(cs.state.Validators, rs.Votes, PrevoteType, round)
        c1 == IF /\ ok /\ rs.LockedBlock # NoBlock /\ rs.LockedRound < round
                 /\ round <= rs.Round /\ ~HashesTo(rs.LockedBlock, blockID)
              THEN Unlock(cs, height) ELSE cs
        c2 == IF ok /\ blockID # NilID /\ rs.ValidRound < round /\ round = rs.Round
              THEN [c1 EXCEPT
                      !.roundStates[height].ValidRound =
                          IF HashesTo(rs.ProposalBlock, blockID) THEN round ELSE @,
                      !.roundStates[height].ValidBlock =
                          IF HashesTo(rs.ProposalBlock, blockID) THEN rs.ProposalBlock ELSE @,
                      !.roundStates[height].ValidBlockParts =
                          IF HashesTo(rs.ProposalBlock, blockID) THEN rs.ProposalBlockParts ELSE @,
                      !.roundStates[height].ProposalBlock =
                          IF HashesTo(rs.ProposalBlock, blockID) THEN @ ELSE NoBlock,
                      !.roundStates[height].ProposalBlockParts =
                          IF HasHeader(rs.ProposalBlockParts, blockID) THEN @
                          ELSE NewPartSetFromHeader(blockID)]
              ELSE c1 IN
    IF rs.Round < round /\ any THEN enterNewRound(c2, height, round)
    ELSE IF rs.Round = round /\ RoundStepPrevote <= rs.Step
         THEN IF ok /\ (isProposalComplete(c2, height) \/ blockID = NilID)
              THEN enterPrecommit(c2, height, round)
              ELSE IF any THEN enterPrevoteWait(c2, height, round) ELSE c2
    ELSE IF rs.Proposal.set /\ 0 <= rs.Proposal.POLRound /\ rs.Proposal.POLRound = round
         THEN IF isProposalComplete(c2, height)
              THEN enterPrevote(c2, height, rs.Round) ELSE c2
    ELSE c2

\* addVote, a precommit
addPrecommit(cs, height, round) ==
    LET rs == cs.roundStates[height]
        ok == HasTwoThirdsMajority(cs.state.Validators, rs.Votes, PrecommitType, round)
        blockID == TwoThirdsMajority(cs.state.Validators, rs.Votes, PrecommitType, round)
        any == HasTwoThirdsAny(cs.state.Validators, rs.Votes, PrecommitType, round)
        c1 == enterPrecommit(enterNewRound(cs, height, round), height, round) IN
    IF ok
    THEN IF blockID # NilID
         THEN enterCommit(c1, height, round)
         ELSE enterPrecommitWait(c1, height, round)
    ELSE IF rs.Round <= round /\ any
         THEN enterPrecommitWait(enterNewRound(cs, height, round), height, round)
         ELSE cs

addVote(cs, vote) ==
    IF cs.panicked \/ ~HasRoundState(cs, vote.Height) THEN cs
    ELSE IF ~VoteAdded(cs, vote) THEN cs
    ELSE LET c1 == [cs EXCEPT !.roundStates[vote.Height].Votes = @ \cup
                        {[Type |-> vote.Type, Round |-> vote.Round,
                          Val |-> vote.Val, BlockID |-> vote.BlockID]}] IN
         IF vote.Type = PrevoteType
         THEN addPrevote(c1, vote.Height, vote.Round)
         ELSE addPrecommit(c1, vote.Height, vote.Round)

\* VoteSet.AddVote finds a vote of the validator for the same type and round
\* and another block
Conflicting(cs, vote) ==
    \E v \in cs.roundStates[vote.Height].Votes :
        /\ v.Type = vote.Type /\ v.Round = vote.Round /\ v.Val = vote.Val
        /\ v.BlockID # vote.BlockID

\* the DuplicateVoteEvidence that ErrVoteConflictingVotes carries
DuplicateVoteEvidence(cs, vote) ==
    LET voteA == CHOOSE v \in cs.roundStates[vote.Height].Votes :
                     /\ v.Type = vote.Type /\ v.Round = vote.Round /\ v.Val = vote.Val
                     /\ v.BlockID # vote.BlockID IN
    [Val |-> vote.Val, Height |-> vote.Height, VoteA |-> voteA.BlockID,
     VoteB |-> vote.BlockID]

\* tryAddVote that hands no evidence to the pool (fault injection)
tryAddVote_NoEvidence(cs, vote) ==
    IF cs.panicked \/ ~HasRoundState(cs, vote.Height) THEN cs
    ELSE IF Conflicting(cs, vote)
         THEN [cs EXCEPT !.voteErr = "ErrVoteConflictingVotes",
                         !.conflicts = @ \cup {vote}]
         ELSE [addVote(cs, vote) EXCEPT !.voteErr = ErrNone]

\* tryAddVote; voteErr is the error it returns and conflicts the votes it
\* has found conflicting
tryAddVote(cs, vote) ==
    IF cs.panicked \/ ~HasRoundState(cs, vote.Height) THEN cs
    ELSE IF Conflicting(cs, vote)
         THEN LET c1 == [cs EXCEPT !.voteErr = "ErrVoteConflictingVotes",
                                   !.conflicts = @ \cup {vote}] IN
              IF vote.Val = cs.me THEN c1
              ELSE [c1 EXCEPT !.evpool = @ \cup {DuplicateVoteEvidence(cs, vote)}]
         ELSE [addVote(cs, vote) EXCEPT !.voteErr = ErrNone]

handleMsg(cs, msg) ==
    IF msg.kind = "proposal" THEN defaultSetProposal(cs, msg)
    ELSE IF msg.kind = "part" THEN addProposalBlockPart(cs, msg)
    ELSE tryAddVote(cs, msg)

\* handleTimeout without the test of round and step against the RoundState
\* (fault injection)
handleTimeout_NoStaleCheck(cs, height, ti) ==
    IF cs.panicked \/ ~HasRoundState(cs, height) THEN cs
    ELSE IF ti.Step = RoundStepNewHeight THEN enterNewRound(cs, height, 0)
    ELSE IF ti.Step = RoundStepNewRound THEN enterPropose(cs, height, 0)
    ELSE IF ti.Step = RoundStepPropose THEN enterPrevote(cs, height, ti.Round)
    ELSE IF ti.Step = RoundStepPrevoteWait THEN enterPrecommit(cs, height, ti.Round)
    ELSE IF ti.Step = RoundStepPrecommitWait
         THEN enterNewRound(enterPrecommit(cs, height, ti.Round), height, ti.Round + 1)
    ELSE Panic(cs)

handleTimeout(cs, height, ti) ==
    IF cs.panicked \/ ~HasRoundState(cs, height) THEN cs
    ELSE LET rs == cs.roundStates[height] IN
         IF ti.Round < rs.Round \/ (ti.Round = rs.Round /\ ti.Step < rs.Step) THEN cs
         ELSE IF ti.Step = RoundStepNewHeight THEN enterNewRound(cs, height, 0)
         ELSE IF ti.Step = RoundStepNewRound THEN enterPropose(cs, height, 0)
         ELSE IF ti.Step = RoundStepPropose THEN enterPrevote(cs, height, ti.Round)
         ELSE IF ti.Step = RoundStepPrevoteWait THEN enterPrecommit(cs, height, ti.Round)
         ELSE IF ti.Step = RoundStepPrecommitWait
              THEN enterNewRound(enterPrecommit(cs, height, ti.Round), height, ti.Round + 1)
         ELSE Panic(cs)

\* receiveRoutine, a height from newHeightQueue
handleNewHeight(cs, height) ==
    scheduleTimeout(IF HasRoundState(cs, height) THEN cs ELSE updateNewHeight(cs, height),
                    height, 0, RoundStepNewHeight)

\* ------------------------------------------------------------------------
\* One node among peers: the node runs the handlers, its peers hold more
\* than two thirds of the voting power and may send anything they can sign.
\* ------------------------------------------------------------------------
Heights == 1..MaxHeight

\* the rounds explored at a height: a second round at height 2 only
MaxRoundAt(h) == IF h = 2 THEN MaxRound ELSE 0

\* the validator set of the one-node model: the peer alone is a quorum
SoloValidators == [v \in {"v1", "v2"} |-> IF v = "v1" THEN 1 ELSE 3]

\* the block IDs a node has seen for a height
KnownBlocks(cs, height) ==
    LET rs == cs.roundStates[height] IN
    ({rs.ProposalBlock, rs.LockedBlock, rs.ValidBlock, rs.Proposal.BlockID,
      rs.ProposalBlockParts.header} \cup {v.BlockID : v \in rs.Votes}) \ {NilID}

\* the blocks a peer can build for a height on what the node has for the
\* height before
PrevIDs(cs, height) ==
    IF height = 1 THEN {NilID}
    ELSE ({LoadBlockID(cs, height - 1)}
          \cup (IF HasRoundState(cs, height - 1)
                THEN {Hash(cs.roundStates[height - 1].ProposalBlock)} ELSE {})) \ {NilID}

PeerBlocks(cs, height, round, val) ==
    {MakeBlock(height, val, round, p) : p \in PrevIDs(cs, height)}

\* the block IDs a peer can vote for or propose at a height and round
Candidates(cs, height, round) ==
    KnownBlocks(cs, height)
    \cup PeerBlocks(cs, height, round, GetProposer(cs.state.Validators, height, round))

\* whether the node has the vote of a validator for a type and round
Voted(cs, h, type, round, val) ==
    \E v \in cs.roundStates[h].Votes : v.Type = type /\ v.Round = round /\ v.Val = val

\* whether the node is at or past a step of round 0, or in a later round
Reached(cs, h, step) == cs.roundStates[h].Step >= step \/ cs.roundStates[h].Round > 0

\* The votes of the peers.  For round 0 of a height that is not finalized the
\* peers are in step with the node: their prevote follows the node's, their
\* precommit follows their prevote and the node's precommit, and they
\* precommit nil or the block they prevoted.  For a later round they send the
\* precommits of a commit (catch-up), to a node that has precommitted, and,
\* in the runs without pipelining, the nil prevotes of a round the node has
\* not reached.
PeerVotes(cs, peers, h) ==
    {VoteMessage(PrevoteType, h, 0, b, val) :
        val \in {p \in peers : /\ h > cs.state.LastBlockHeight
                               /\ Reached(cs, h, RoundStepPrevote)},
        b \in {NilID} \cup KnownBlocks(cs, h)}
    \cup
    {VoteMessage(PrecommitType, h, 0, b, val) :
        val \in {p \in peers : /\ h > cs.state.LastBlockHeight
                               /\ Voted(cs, h, PrevoteType, 0, p)
                               /\ Reached(cs, h, RoundStepPrecommit)},
        b \in {NilID} \cup {v.BlockID : v \in {w \in VotesOf(cs.roundStates[h].Votes,
                                                            PrevoteType, 0) :
                                                w.Val \in peers}}}
    \cup
    UNION {{VoteMessage(PrecommitType, h, r, b, val) :
               val \in {p \in peers : Reached(cs, h, RoundStepPrecommit)},
               b \in Candidates(cs, h, r)} : r \in 1..MaxRoundAt(h)}
    \cup
    UNION {{VoteMessage(PrevoteType, h, r, NilID, val) :
               val \in {p \in peers : /\ cs.state.LenULB = SerialLenULB
                                      /\ h > cs.state.LastBlockHeight
                                      /\ Reached(cs, h, RoundStepPrevote)
                                      /\ cs.roundStates[h].Round < r}} :
           r \in 1..MaxRoundAt(h)}

PeerProposals(cs, peers, h) ==
    LET round == cs.roundStates[h].Round IN
    {ProposalMessage(h, round, pol, b, val) :
        pol \in -1..(round - 1),
        val \in {p \in peers : /\ p = GetProposer(cs.state.Validators, h, round)
                               /\ round = 0
                               /\ ~cs.roundStates[h].Proposal.set},
        b \in Candidates(cs, h, round)}

PeerParts(cs, h) ==
    {BlockPartMessage(h, cs.roundStates[h].Round, blk) :
        blk \in {cs.roundStates[h].ProposalBlockParts.header} \ {NilID}}

\* what the peers of a node can send it
\* the peers of PeerMsgs do not vote twice for a type and round
PeerMsgs(cs, peers) ==
    UNION {{m \in PeerVotes(cs, peers, h) : ~Voted(cs, h, m.Type, m.Round, m.Val)}
           \cup PeerProposals(cs, peers, h) \cup PeerParts(cs, h) :
              h \in {g \in Heights : HasRoundState(cs, g)}}

\* a second vote of a validator, the node itself included, for another block
\* than the vote the node holds
EquivocalVotes(cs) ==
    UNION {UNION {{VoteMessage(v.Type, h, v.Round, b, v.Val) :
                      b \in ({NilID} \cup Candidates(cs, h, v.Round)) \ {v.BlockID}} :
                  v \in cs.roundStates[h].Votes} :
           h \in {g \in Heights : HasRoundState(cs, g)}}

RoundsBounded(cs) == \A h \in DOMAIN cs.roundStates : cs.roundStates[h].Round <= MaxRoundAt(h)

\* a handler runs with the lock of the RoundState of its height
Unlocked(cs, height) == ~cs.panicked /\ height \notin cs.waitFinalize

\* pollers that send on newHeightQueue without the wait for the height
\* lenULB below (fault injection)
ReadyHeights_NoWait(cs) == cs.newHeightPollers

\* the pollers of scheduleNewHeightRound0 whose wait is over: their send on
\* newHeightQueue is ready
ReadyHeights(cs) ==
    {h \in cs.newHeightPollers : h - cs.state.LenULB <= cs.state.LastBlockHeight}

\* The select of receiveRoutine takes what the node itself has made ready, a
\* new-height signal or a message of its own, before it takes a message of a
\* peer or a timeout.
Quiet(cs) == cs.internalMsgQueue = <<>> /\ ReadyHeights(cs) = {}

\* the orders in which the signer's map may be visited when a handler for a
\* height prunes it
\* (only the finalize of a height above LenULB prunes, and the height that
\* can be finalized is LastBlockHeight + 1)
OrdersFor(cs, height) ==
    IF cs.state.LastBlockHeight + 1 > cs.state.LenULB
    THEN RangeOrders((DOMAIN cs.privValidator.HeightSignStateMap \cup {height}) \cap Heights)
    ELSE {<<>>}

\* the step of node n to cs, under one visiting order of the signer's map
Step(n, next) ==
    /\ RoundsBounded(next)
    /\ nodes' = [nodes EXCEPT ![n] = [next EXCEPT !.rangeOrder = <<>>]]
    /\ UNCHANGED signerVars

WithOrder(cs, order) == [cs EXCEPT !.rangeOrder = order]

\* newHeightQueue: the poller of a height passes its wait
NewHeight(n) ==
    \E h \in ReadyHeights(nodes[n]) :
        /\ ~nodes[n].panicked
        /\ Step(n, handleNewHeight([nodes[n] EXCEPT !.newHeightPollers = @ \ {h}], h))
        /\ UNCHANGED net

\* aggregatedTockChan: the timeout of a height fires
Timeout(n) ==
    \E h \in DOMAIN nodes[n].timeoutTickers :
      \E order \in OrdersFor(nodes[n], h) :
        /\ Unlocked(nodes[n], h)
        /\ nodes[n].timeoutTickers[h].pending
        /\ Quiet(nodes[n])
        /\ Step(n, handleTimeout(
                     WithOrder([nodes[n] EXCEPT !.timeoutTickers[h].pending = FALSE], order),
                     h, nodes[n].timeoutTickers[h]))
        /\ UNCHANGED net

\* internalMsgQueue: the node handles a message of its own, which its
\* reactor gossips
Internal(n) ==
    \E m \in {Head(q) : q \in {nodes[n].internalMsgQueue} \ {<<>>}} :
      \E order \in OrdersFor(nodes[n], m.Height) :
        /\ Unlocked(nodes[n], m.Height)
        /\ Step(n, handleMsg(WithOrder([nodes[n] EXCEPT !.internalMsgQueue = Tail(@)], order),
                             m))
        /\ net' = net \cup {m}

\* peerMsgQueue of the one-node model
PeerMsg(n) ==
    \E m \in PeerMsgs(nodes[n], DOMAIN nodes[n].state.Validators \ {n}) :
      \E order \in OrdersFor(nodes[n], m.Height) :
        /\ Unlocked(nodes[n], m.Height)
        /\ Quiet(nodes[n])
        /\ Step(n, handleMsg(WithOrder(nodes[n], order), m))
        /\ nodes'[n] # nodes[n]
        /\ UNCHANGED net

\* waitFinalizeCond: a finalizeCommit that waited finds its height next
FinalizeResume(n) ==
    \E h \in nodes[n].waitFinalize :
      \E order \in OrdersFor(nodes[n], h) :
        /\ ~nodes[n].panicked
        /\ HasRoundState(nodes[n], h)
        /\ h = nodes[n].state.LastBlockHeight + 1
        /\ Step(n, finalizeCommitResume(WithOrder(nodes[n], order), h))
        /\ UNCHANGED net

NodeInit ==
    /\ pv = NewSignState
    /\ file = MarshalJSON(NewSignState)
    /\ res = NoCall
    /\ granted = {}
    /\ ncalls = 0
    /\ thr = <<>>
    /\ nodes = [n \in {"v1"} |-> NewConsensusState(n, SoloValidators, LenULB)]
    /\ net = {}

NodeNext ==
    \/ NewHeight("v1")
    \/ Timeout("v1")
    \/ Internal("v1")
    \/ PeerMsg("v1")
    \/ FinalizeResume("v1")

SpecNode == NodeInit /\ [][NodeNext]_vars

\* The goroutine of scheduleNewHeightRound0 blocks in its send on the
\* unbuffered newHeightQueue and receiveRoutine loops over a select that
\* chooses among its ready cases at random: a send that stays ready is taken.
SpecNodeFair == SpecNode /\ WF_vars(NewHeight("v1"))

\* The node with lenULB = 1.  The RoundState of a height is then made only
\* when the height below is finalized, so a finalizeCommit waits only when it
\* is called again for a finalized height, and FinalizeResume is never
\* enabled.
SerialInit ==
    /\ pv = NewSignState
    /\ file = MarshalJSON(NewSignState)
    /\ res = NoCall
    /\ granted = {}
    /\ ncalls = 0
    /\ thr = <<>>
    /\ nodes = [n \in {"v1"} |-> NewConsensusState(n, SoloValidators, SerialLenULB)]
    /\ net = {}

SerialNext ==
    \/ NewHeight("v1")
    \/ Timeout("v1")
    \/ Internal("v1")
    \/ PeerMsg("v1")

SpecNodeSerial == SerialInit /\ [][SerialNext]_vars

\* The select of receiveRoutine chooses among its ready cases at random, so
\* the send of a poller, ready or not, may stay behind the messages of peers
\* and the timeouts for any number of turns.
TimeoutFirst(n) ==
    \E h \in DOMAIN nodes[n].timeoutTickers :
      \E order \in OrdersFor(nodes[n], h) :
        /\ Unlocked(nodes[n], h)
        /\ nodes[n].timeoutTickers[h].pending
        /\ nodes[n].internalMsgQueue = <<>>
        /\ Step(n, handleTimeout(
                     WithOrder([nodes[n] EXCEPT !.timeoutTickers[h].pending = FALSE], order),
                     h, nodes[n].timeoutTickers[h]))
        /\ UNCHANGED net

PeerMsgFirst(n) ==
    \E m \in PeerMsgs(nodes[n], DOMAIN nodes[n].state.Validators \ {n}) :
      \E order \in OrdersFor(nodes[n], m.Height) :
        /\ Unlocked(nodes[n], m.Height)
        /\ nodes[n].internalMsgQueue = <<>>
        /\ Step(n, handleMsg(WithOrder(nodes[n], order), m))
        /\ nodes'[n] # nodes[n]
        /\ UNCHANGED net

\* the runs go on until this height is finalized, and end with the signals
\* that are still to be received
MaxDelayedHeight == 2

DelayedNext ==
    \/ NewHeight("v1")
    \/ /\ nodes["v1"].state.LastBlockHeight < MaxDelayedHeight
       /\ \/ TimeoutFirst("v1")
          \/ Internal("v1")
          \/ PeerMsgFirst("v1")

\* the node with lenULB = 1 whose new-height signals may be late
SpecNodeDelayed == SerialInit /\ [][DelayedNext]_vars

\* ------------------------------------------------------------------------
\* Three correct nodes and a Byzantine validator with a quarter of the
\* voting power.  The nodes v1, v2 and v3 run the handlers and gossip what
\* they send; v4 sends any vote it can sign.  The network and the timers
\* follow a schedule: what reaches each node, and in which order.
\* ------------------------------------------------------------------------
Correct == {"v1", "v2", "v3"}

Byzantine == {"v4"}

AgreementValidators == [v \in Correct \cup Byzantine |-> 1]

\* the blocks of the schedule: createProposalBlock of v2 at height 1, round 0,
\* of v3 at height 2, round 0 and of v1 at height 2, round 2
BlockA == MakeBlock(1, "v2", 0, NilID)

BlockB == MakeBlock(2, "v3", 0, Hash(BlockA))

BlockC == MakeBlock(2, "v1", 2, Hash(BlockA))

\* the events of the schedule: a timeout of a height fires at a node, or a
\* message reaches it
Tock(n, h) == [node |-> n, kind |-> "timeout", h |-> h, m |-> <<>>]

Recv(n, m) == [node |-> n, kind |-> "msg", h |-> m.Height, m |-> m]

\* a proposal and the part of its block
Prop(n, h, r, pol, b, val) ==
    <<Recv(n, ProposalMessage(h, r, pol, Hash(b), val)), Recv(n, BlockPartMessage(h, r, b))>>

Vote(n, type, h, r, b, val) == <<Recv(n, VoteMessage(type, h, r, b, val))>>

Schedule ==
    \* height 1, round 0: v2 proposes A, all prevote and precommit A
    <<Tock("v1", 1), Tock("v2", 1), Tock("v3", 1)>>
    \o Prop("v1", 1, 0, -1, BlockA, "v2") \o Prop("v3", 1, 0, -1, BlockA, "v2")
    \o Vote("v1", PrevoteType, 1, 0, BlockA, "v2") \o Vote("v1", PrevoteType, 1, 0, BlockA, "v3")
    \o Vote("v2", PrevoteType, 1, 0, BlockA, "v1") \o Vote("v2", PrevoteType, 1, 0, BlockA, "v3")
    \o Vote("v3", PrevoteType, 1, 0, BlockA, "v1") \o Vote("v3", PrevoteType, 1, 0, BlockA, "v2")
    \* each node sees two precommits for A and one for nil
    \o Vote("v1", PrecommitType, 1, 0, NilID, "v4") \o Vote("v1", PrecommitType, 1, 0, BlockA, "v2")
    \o Vote("v2", PrecommitType, 1, 0, NilID, "v4") \o Vote("v2", PrecommitType, 1, 0, BlockA, "v3")
    \o Vote("v3", PrecommitType, 1, 0, NilID, "v4") \o Vote("v3", PrecommitType, 1, 0, BlockA, "v1")
    \* height 2, round 0: v3 proposes B on A
    \o <<Tock("v1", 2), Tock("v2", 2), Tock("v3", 2)>>
    \o Prop("v1", 2, 0, -1, BlockB, "v3") \o Prop("v2", 2, 0, -1, BlockB, "v3")
    \* v2 and v3 see the polka and lock B; v1 does not
    \o Vote("v3", PrevoteType, 2, 0, BlockB, "v1") \o Vote("v3", PrevoteType, 2, 0, BlockB, "v2")
    \o Vote("v2", PrevoteType, 2, 0, BlockB, "v1") \o Vote("v2", PrevoteType, 2, 0, BlockB, "v3")
    \o Vote("v1", PrevoteType, 2, 0, NilID, "v4") \o Vote("v1", PrevoteType, 2, 0, BlockB, "v3")
    \o <<Tock("v1", 2)>>
    \* v3 commits B with the precommit of v4
    \o Vote("v3", PrecommitType, 2, 0, BlockB, "v2") \o Vote("v3", PrecommitType, 2, 0, BlockB, "v4")
    \o Vote("v2", PrecommitType, 2, 0, NilID, "v1") \o Vote("v2", PrecommitType, 2, 0, NilID, "v4")
    \o Vote("v1", PrecommitType, 2, 0, BlockB, "v2") \o Vote("v1", PrecommitType, 2, 0, NilID, "v4")
    \* height 1 goes to round 1
    \o <<Tock("v3", 1), Tock("v2", 1), Tock("v1", 1)>>
    \* height 2, round 1: v2 unlocks B
    \o <<Tock("v2", 2), Tock("v2", 2), Tock("v1", 2), Tock("v1", 2)>>
    \o Vote("v2", PrevoteType, 2, 1, NilID, "v1") \o Vote("v2", PrevoteType, 2, 1, NilID, "v4")
    \o Vote("v1", PrevoteType, 2, 1, NilID, "v2") \o Vote("v1", PrevoteType, 2, 1, NilID, "v4")
    \o Vote("v2", PrecommitType, 2, 1, NilID, "v1") \o Vote("v2", PrecommitType, 2, 1, NilID, "v4")
    \o Vote("v1", PrecommitType, 2, 1, NilID, "v2") \o Vote("v1", PrecommitType, 2, 1, NilID, "v4")
    \* the proposal of height 1, round 1 arrives: A again
    \o Prop("v1", 1, 1, 0, BlockA, "v3") \o Prop("v2", 1, 1, 0, BlockA, "v3")
    \* height 2, round 2: v1 proposes C on A
    \o <<Tock("v2", 2), Tock("v1", 2)>>
    \o Prop("v2", 2, 2, -1, BlockC, "v1")
    \o Vote("v2", PrevoteType, 2, 2, BlockC, "v1") \o Vote("v2", PrevoteType, 2, 2, BlockC, "v4")
    \o Vote("v1", PrevoteType, 2, 2, BlockC, "v2") \o Vote("v1", PrevoteType, 2, 2, BlockC, "v4")
    \o Vote("v2", PrecommitType, 2, 2, BlockC, "v1") \o Vote("v2", PrecommitType, 2, 2, BlockC, "v4")
    \o Vote("v1", PrecommitType, 2, 2, BlockC, "v2") \o Vote("v1", PrecommitType, 2, 2, BlockC, "v4")
    \* height 1 commits A in round 1
    \o Vote("v1", PrevoteType, 1, 1, BlockA, "v2") \o Vote("v1", PrevoteType, 1, 1, BlockA, "v3")
    \o Vote("v2", PrevoteType, 1, 1, BlockA, "v1") \o Vote("v2", PrevoteType, 1, 1, BlockA, "v3")
    \o Vote("v3", PrevoteType, 1, 1, BlockA, "v1") \o Vote("v3", PrevoteType, 1, 1, BlockA, "v2")
    \o Vote("v1", PrecommitType, 1, 1, BlockA, "v2") \o Vote("v1", PrecommitType, 1, 1, BlockA, "v3")
    \o Vote("v2", PrecommitType, 1, 1, BlockA, "v1") \o Vote("v2", PrecommitType, 1, 1, BlockA, "v3")
    \o Vote("v3", PrecommitType, 1, 1, BlockA, "v1") \o Vote("v3", PrecommitType, 1, 1, BlockA, "v2")

\* what the schedule brings to one node, in its order
ScheduleOf(n) == SelectSeq(Schedule, LAMBDA e : e.node = n)

\* thr[n]: how much of its schedule node n has received
Took(n, next) ==
    /\ nodes' = [nodes EXCEPT ![n] = [next EXCEPT !.rangeOrder = <<>>]]
    /\ UNCHANGED <<pv, file, res, granted, ncalls>>

\* the node has a step of its own to take: a new-height signal, a message of
\* its own, or a finalizeCommit whose wait is over
Busy(cs) ==
    /\ ~cs.panicked
    /\ \/ ReadyHeights(cs) # {}
       \/ /\ cs.internalMsgQueue # <<>>
          /\ Head(cs.internalMsgQueue).Height \notin cs.waitFinalize
       \/ \E h \in cs.waitFinalize : HasRoundState(cs, h) /\ h = cs.state.LastBlockHeight + 1

\* newHeightQueue: the poller of a height passes its wait
NewHeightOf(n) ==
    \E h \in ReadyHeights(nodes[n]) :
        /\ ~nodes[n].panicked
        /\ Took(n, handleNewHeight([nodes[n] EXCEPT !.newHeightPollers = @ \ {h}], h))
        /\ UNCHANGED <<thr, net>>

\* internalMsgQueue: the node handles a message of its own, which its
\* reactor gossips
InternalOf(n) ==
    \E m \in {Head(q) : q \in {nodes[n].internalMsgQueue} \ {<<>>}} :
      \E order \in OrdersFor(nodes[n], m.Height) :
        /\ Unlocked(nodes[n], m.Height)
        /\ Took(n, handleMsg(WithOrder([nodes[n] EXCEPT !.internalMsgQueue = Tail(@)], order),
                             m))
        /\ net' = net \cup {m}
        /\ UNCHANGED thr

\* waitFinalizeCond: a finalizeCommit that waited finds its height next
ResumeOf(n) ==
    \E h \in nodes[n].waitFinalize :
      \E order \in OrdersFor(nodes[n], h) :
        /\ ~nodes[n].panicked
        /\ HasRoundState(nodes[n], h)
        /\ h = nodes[n].state.LastBlockHeight + 1
        /\ Took(n, finalizeCommitResume(WithOrder(nodes[n], order), h))
        /\ UNCHANGED <<thr, net>>

\* aggregatedTockChan: the timeout that the schedule has next for the node
TimeoutDue(n) ==
    /\ ~Busy(nodes[n])
    /\ thr[n] < Len(ScheduleOf(n))
    /\ \E e \in {ScheduleOf(n)[thr[n] + 1]} :
       \E order \in OrdersFor(nodes[n], e.h) :
        /\ e.kind = "timeout"
        /\ Unlocked(nodes[n], e.h)
        /\ e.h \in DOMAIN nodes[n].timeoutTickers
        /\ nodes[n].timeoutTickers[e.h].pending
        /\ Took(n, handleTimeout(
                     WithOrder([nodes[n] EXCEPT !.timeoutTickers[e.h].pending = FALSE], order),
                     e.h, nodes[n].timeoutTickers[e.h]))
    /\ thr' = [thr EXCEPT ![n] = @ + 1]
    /\ UNCHANGED net

\* peerMsgQueue: the message that the schedule has next for the node, which
\* a correct node has sent or which is a vote of the Byzantine validator
MsgDue(n) ==
    /\ ~Busy(nodes[n])
    /\ thr[n] < Len(ScheduleOf(n))
    /\ \E e \in {ScheduleOf(n)[thr[n] + 1]} :
       \E order \in OrdersFor(nodes[n], e.h) :
        /\ e.kind = "msg"
        /\ e.m \in net \/ (e.m.kind = "vote" /\ e.m.Val \in Byzantine)
        /\ Unlocked(nodes[n], e.h)
        /\ Took(n, handleMsg(WithOrder(nodes[n], order), e.m))
    /\ thr' = [thr EXCEPT ![n] = @ + 1]
    /\ UNCHANGED net

AgreementInit ==
    /\ pv = NewSignState
    /\ file = MarshalJSON(NewSignState)
    /\ res = NoCall
    /\ granted = {}
    /\ ncalls = 0
    /\ thr = [n \in Correct |-> 0]
    /\ nodes = [n \in Correct |-> NewConsensusState(n, AgreementValidators, LenULB)]
    /\ net = {}

\* The nodes run side by side.  Each takes what it has made ready for itself
\* before it takes the next timeout or message of its schedule.
AgreementNext ==
    \E n \in Correct :
        \/ NewHeightOf(n)
        \/ InternalOf(n)
        \/ ResumeOf(n)
        \/ TimeoutDue(n)
        \/ MsgDue(n)

SpecAgreement == AgreementInit /\ [][AgreementNext]_vars

\* a conflicting vote arrives on peerMsgQueue, once in a run
Equivocate(n) ==
    \E m \in EquivocalVotes(nodes[n]) :
        /\ nodes[n].conflicts = {}
        /\ Unlocked(nodes[n], m.Height)
        /\ Quiet(nodes[n])
        /\ Step(n, handleMsg(nodes[n], m))
        /\ UNCHANGED net

\* The node with a validator that votes twice; the runs end when the first
\* height is finalized.
EquivocationNext ==
    /\ nodes["v1"].state.LastBlockHeight < MaxEquivocationHeight
    /\ \/ NewHeight("v1")
       \/ Timeout("v1")
       \/ Internal("v1")
       \/ PeerMsg("v1")
       \/ Equivocate("v1")

SpecEquivocation == NodeInit /\ [][EquivocationNext]_vars

\* ========================================================================
\* Part 3: the validation of the block that finalizeCommit is about to save
\*         (state.fridayValidateBlock), on blocks with the header fields
\*         that refer to the height lenULB below.
\*
\* What the state DB and the block store hold for a committed height is a
\* value tagged with the height; nothing is stored above LastBlockHeight.
\* ========================================================================
NilHash == <<>>

AppHashOf(height) == <<"app", height>>

ResultsHashOf(height) == <<"results", height>>

BlockIDOf(height) == <<"block", height>>

\* the validator that joins the set for a height above 1, in place of the
\* one that joined for the height before
Joined == <<"v4", "v5", "v6", "v7", "v8", "v9", "v10", "v11">>

\* the validator set of a height: the set grows after height 1 and changes
\* with every height
ValidatorsOf(height) ==
    IF height <= 1 THEN {"v1", "v2", "v3"} ELSE {"v1", "v2", "v3", Joined[((height - 2) % Len(Joined)) + 1]}

\* LoadAppHash: the zero value, with an error, for a height not stored
LoadAppHash(state, height) ==
    IF height >= 1 /\ height <= state.LastBlockHeight THEN AppHashOf(height) ELSE NilHash

\* LoadABCIResponses(...).ResultsHash(); "error" for a height not stored
LoadResultsHash(state, height) ==
    IF height >= 1 /\ height <= state.LastBlockHeight THEN ResultsHashOf(height) ELSE "error"

\* LoadBlockMeta(...).BlockID
LoadBlockMetaID(state, height) ==
    IF height >= 1 /\ height <= state.LastBlockHeight THEN BlockIDOf(height) ELSE NilHash

\* ValidatorSet.VerifyCommit: one slot per validator, the commit is for the
\* block id, and the signers of the set hold more than 2/3 of the power (all
\* powers are 1)
VerifyCommit(validators, blockID, commit) ==
    /\ commit.Slots = Cardinality(validators)
    /\ commit.BlockID = blockID
    /\ commit.Signers \subseteq validators
    /\ 3 * Cardinality(commit.Signers) > 2 * Cardinality(validators)

\* the block at the height below is committed: its meta is in the store
PrevBlockCommitted_AfterFirst(state, block) ==
    LET prevBlockHeight == block.Height - 1 IN
    prevBlockHeight > 1 /\ prevBlockHeight <= state.LastBlockHeight

PrevBlockCommitted(state, block) ==
    LET prevBlockHeight == block.Height - 1 IN
    prevBlockHeight > 0 /\ prevBlockHeight <= state.LastBlockHeight

\* the height whose validator set the block is checked against
ValHeight_Own(lenULB, block) == block.Height

ValHeight(lenULB, block) ==
    IF block.Height <= lenULB + 1 THEN 1 ELSE block.Height

\* fridayValidateBlock without the check of the app hash (fault injection)
fridayValidateBlock_NoAppHash(state, block) ==
    LET lenULB == state.LenULB
        prevBlockHeight == block.Height - 1
        ulbHeight == block.Height - lenULB
        valHeight == ValHeight(lenULB, block) IN
    IF block.Height <= state.LastBlockHeight THEN "WrongHeight"
    ELSE IF /\ PrevBlockCommitted(state, block)
            /\ block.LastBlockID # LoadBlockMetaID(state, prevBlockHeight)
         THEN "mismatch"
    ELSE IF block.Height > lenULB /\ LoadResultsHash(state, ulbHeight) = "error"
         THEN "panic"
    ELSE IF block.Height > lenULB /\ block.LastResultsHash # LoadResultsHash(state, ulbHeight)
         THEN "WrongLastResultsHash"
    ELSE IF block.ValidatorsHash # ValidatorsOf(valHeight) THEN "WrongValidatorsHash"
    ELSE IF /\ block.Height >= lenULB + 1
            /\ block.NextValidatorsHash # ValidatorsOf(block.Height + 1)
         THEN "WrongNextValidatorsHash"
    ELSE IF block.Height <= lenULB /\ block.LastCommit.Slots # 0 THEN "InvalidCommit"
    ELSE IF /\ block.Height > lenULB
            /\ ~VerifyCommit(ValidatorsOf(ulbHeight), LoadBlockMetaID(state, ulbHeight),
                             block.LastCommit)
         THEN "InvalidCommit"
    ELSE IF block.ProposerAddress \notin ValidatorsOf(valHeight) THEN "WrongProposer"
    ELSE "ok"

\* fridayValidateBlock: "ok", "mismatch" (ErrLastBlockIDMismatch), "panic" or
\* the name of the field of another error
fridayValidateBlock(state, block) ==
    LET lenULB == state.LenULB
        prevBlockHeight == block.Height - 1
        ulbHeight == block.Height - lenULB
        valHeight == ValHeight(lenULB, block) IN
    IF block.Height <= state.LastBlockHeight THEN "WrongHeight"
    ELSE IF /\ PrevBlockCommitted(state, block)
            /\ block.LastBlockID # LoadBlockMetaID(state, prevBlockHeight)
         THEN "mismatch"
    ELSE IF block.Height > lenULB /\ block.AppHash # LoadAppHash(state, ulbHeight)
         THEN "WrongAppHash"
    ELSE IF block.Height > lenULB /\ LoadResultsHash(state, ulbHeight) = "error"
         THEN "panic"
    ELSE IF block.Height > lenULB /\ block.LastResultsHash # LoadResultsHash(state, ulbHeight)
         THEN "WrongLastResultsHash"
    ELSE IF block.ValidatorsHash # ValidatorsOf(valHeight) THEN "WrongValidatorsHash"
    ELSE IF /\ block.Height >= lenULB + 1
            /\ block.NextValidatorsHash # ValidatorsOf(block.Height + 1)
         THEN "WrongNextValidatorsHash"
    ELSE IF block.Height <= lenULB /\ block.LastCommit.Slots # 0 THEN "InvalidCommit"
    ELSE IF /\ block.Height > lenULB
            /\ ~VerifyCommit(ValidatorsOf(ulbHeight), LoadBlockMetaID(state, ulbHeight),
                             block.LastCommit)
         THEN "InvalidCommit"
    ELSE IF block.ProposerAddress \notin ValidatorsOf(valHeight) THEN "WrongProposer"
    ELSE "ok"

\* the commits a block may carry
Commits ==
    {c \in [BlockID : {NilHash} \cup {BlockIDOf(h) : h \in 1..MaxHeight},
            Slots : {0, 3, 4},
            Signers : {{}, {"v1", "v2"}, {"v1", "v2", "v3"}}] :
        Cardinality(c.Signers) <= c.Slots}

\* the blocks that +2/3 may have committed at a height
HeaderBlocks(height) ==
    [Height : {height},
     LastBlockID : {NilHash} \cup {BlockIDOf(h) : h \in {height - 1, height - 2} \cap (1..MaxHeight)},
     AppHash : {NilHash} \cup {AppHashOf(h) : h \in {height - 1, height - 2} \cap (1..MaxHeight)},
     LastResultsHash : {NilHash} \cup {ResultsHashOf(h) : h \in {height - 1, height - 2} \cap (1..MaxHeight)},
     ValidatorsHash : {ValidatorsOf(1), ValidatorsOf(height)},
     NextValidatorsHash : {ValidatorsOf(height + 1)},
     LastCommit : Commits,
     ProposerAddress : {"v1", "v4"}]

\* finalizeCommit of the height after LastBlockHeight, from the end of its
\* wait: the block is validated, then saved and applied
FinalizeValidated(n) ==
    LET cs == nodes[n]
        out == fridayValidateBlock(cs.state, cs.block) IN
    /\ cs.outcome = "commit"
    /\ cs.block.Height = cs.state.LastBlockHeight + 1
    /\ nodes' = [nodes EXCEPT ![n] =
            IF out = "ok"
            THEN [cs EXCEPT !.outcome = "finalized",
                            !.state.LastBlockHeight = cs.block.Height]
            ELSE IF out = "mismatch" THEN [cs EXCEPT !.outcome = "newround"]
            ELSE [cs EXCEPT !.outcome = "panic"]]
    /\ UNCHANGED <<signerVars, net>>

\* a node at its commit step of the height after LastBlockHeight, with any
\* block as the one +2/3 precommitted
ValidateInit ==
    /\ pv = NewSignState
    /\ file = MarshalJSON(NewSignState)
    /\ res = NoCall
    /\ granted = {}
    /\ ncalls = 0
    /\ thr = <<>>
    /\ net = {}
    /\ \E last \in 0..MaxHeight : \E block \in HeaderBlocks(last + 1) :
          nodes = [n \in {"v1"} |->
                      [state |-> [LastBlockHeight |-> last, LenULB |-> LenULB],
                       block |-> block, outcome |-> "commit"]]

ValidateNext == FinalizeValidated("v1")

SpecValidate == ValidateInit /\ [][ValidateNext]_vars

\* the blocks a proposer may send for a height: the fields that refer to the
\* height lenULB below are the stored ones, the links to the previous block
\* and to the validator sets are any
ProposalBlocks(state, height) ==
    LET ulbHeight == height - state.LenULB IN
    [Height : {height},
     LastBlockID : {NilHash} \cup {BlockIDOf(h) : h \in {height - 1, height - 2} \cap (1..MaxHeight)},
     AppHash : {IF height > state.LenULB THEN LoadAppHash(state, ulbHeight) ELSE NilHash},
     LastResultsHash : {IF height > state.LenULB THEN ResultsHashOf(ulbHeight) ELSE NilHash},
     ValidatorsHash : {ValidatorsOf(1), ValidatorsOf(height), ValidatorsOf(height + 1)},
     NextValidatorsHash : {ValidatorsOf(1), ValidatorsOf(height), ValidatorsOf(height + 1)},
     LastCommit : {IF height > state.LenULB
                   THEN [BlockID |-> LoadBlockMetaID(state, ulbHeight),
                         Slots |-> Cardinality(ValidatorsOf(ulbHeight)),
                         Signers |-> {"v1", "v2", "v3"}]
                   ELSE [BlockID |-> NilHash, Slots |-> 0, Signers |-> {}]},
     ProposerAddress : {"v1"}]

\* defaultDoPrevote with a complete proposal block and nothing locked: the
\* block is validated against cs.state; the prevote is for the block when
\* there is no error and nil otherwise
ValidateProposal(n) ==
    LET cs == nodes[n] IN
    /\ cs.prevote = "none"
    /\ nodes' = [nodes EXCEPT ![n] =
            [cs EXCEPT !.err = fridayValidateBlock(cs.state, cs.block),
                       !.prevote = IF fridayValidateBlock(cs.state, cs.block) = "ok"
                                   THEN "block" ELSE "nil"]]
    /\ UNCHANGED <<signerVars, net>>

\* a node about to prevote, with any committed height and any proposal block
\* of a height up to one above the window
ProposalInit ==
    /\ pv = NewSignState
    /\ file = MarshalJSON(NewSignState)
    /\ res = NoCall
    /\ granted = {}
    /\ ncalls = 0
    /\ thr = <<>>
    /\ net = {}
    /\ \E last \in 0..MaxHeight : \E k \in 1..MaxLenULB : \E height \in 1..(MaxHeight + 1) :
          \E block \in ProposalBlocks([LastBlockHeight |-> last, LenULB |-> k], height) :
              nodes = [n \in {"v1"} |->
                          [state |-> [LastBlockHeight |-> last, LenULB |-> k],
                           block |-> block, err |-> "none", prevote |-> "none"]]

ProposalNext == ValidateProposal("v1")

SpecProposal == ProposalInit /\ [][ProposalNext]_vars

\* LoadValidators has a set for the heights from 1 to the last one a block
\* in the window refers to
HasValidators(state, height) ==
    1 <= height /\ height <= state.LastBlockHeight + state.LenULB + 2

\* Evidence.Verify(chainID, pubKey): the two votes are signed with the key
VerifyEvidenceSignature(evidence, val) == evidence.Signer = val

VerifyEvidence_Inclusive(state, evidence) ==
    LET height == state.LastBlockHeight
        evidenceAge == height - evidence.Height
        maxAge == state.MaxAge IN
    IF evidenceAge >= maxAge THEN "TooOld"
    ELSE IF ~HasValidators(state, evidence.Height) THEN "NoValidators"
    ELSE IF evidence.Address \notin ValidatorsOf(evidence.Height) THEN "NotValidator"
    ELSE IF ~VerifyEvidenceSignature(evidence, evidence.Address) THEN "BadSignature"
    ELSE "ok"

\* VerifyEvidence: the first error, or "ok"
VerifyEvidence(state, evidence) ==
    LET height == state.LastBlockHeight
        evidenceAge == height - evidence.Height
        maxAge == state.MaxAge IN
    IF evidenceAge > maxAge THEN "TooOld"
    ELSE IF ~HasValidators(state, evidence.Height) THEN "NoValidators"
    ELSE IF evidence.Address \notin ValidatorsOf(evidence.Height) THEN "NotValidator"
    ELSE IF ~VerifyEvidenceSignature(evidence, evidence.Address) THEN "BadSignature"
    ELSE "ok"

SmallMaxAge == 2

ExampleMaxAge == 100

ExampleLastHeight == 500

\* the committed heights and the heights of evidence of a run: the small ones
\* and the ones around ExampleLastHeight - ExampleMaxAge
EvidenceLastHeights == (0..(SmallMaxAge + 2)) \cup {ExampleLastHeight}

EvidenceHeights ==
    (0..(SmallMaxAge + 3))
    \cup {ExampleLastHeight - ExampleMaxAge + d : d \in {-50, -1, 0, 1, 10}}

\* the evidence pool or the block validator verifies a piece of evidence
CheckEvidence(n) ==
    LET cs == nodes[n] IN
    /\ cs.err = "none"
    /\ nodes' = [nodes EXCEPT ![n] = [cs EXCEPT !.err = VerifyEvidence(cs.state, cs.evidence)]]
    /\ UNCHANGED <<signerVars, net>>

EvidenceInit ==
    /\ pv = NewSignState
    /\ file = MarshalJSON(NewSignState)
    /\ res = NoCall
    /\ granted = {}
    /\ ncalls = 0
    /\ thr = <<>>
    /\ net = {}
    /\ \E last \in EvidenceLastHeights : \E maxAge \in {1, SmallMaxAge, ExampleMaxAge} :
          \E evidence \in [Height : EvidenceHeights, Address : {"v1", "v4", "v5"},
                            Signer : {"v1", "v4"}] :
              nodes = [n \in {"v1"} |->
                          [state |-> [LastBlockHeight |-> last, LenULB |-> LenULB,
                                      MaxAge |-> maxAge],
                           evidence |-> evidence, err |-> "none"]]

EvidenceNext == CheckEvidence("v1")

SpecEvidence == EvidenceInit /\ [][EvidenceNext]_vars

\* ========================================================================
\* Part 4: the dispatcher (receiveRoutine) with its WAL and the goroutines
\*         it starts.  A handler is one step here: it takes the lock of the
\*         RoundState of its height, applies its message and, for a vote,
\*         publishes the Vote event the reactor broadcasts on.
\* ========================================================================

\* what reaches the queues: two votes of peers, a vote of the node itself
\* and a timeout, all of height 1
WalMsgs ==
    {[kind |-> "peer", id |-> 1], [kind |-> "peer", id |-> 2],
     [kind |-> "internal", id |-> 3], [kind |-> "tock", id |-> 4]}

NoMsg == [kind |-> "none", id |-> 0]

\* the dispatcher after OnStart
NewDispatcher ==
    [sent |-> {}, peerMsgQueue |-> <<>>, internalMsgQueue |-> <<>>, tockChan |-> <<>>,
     wal |-> <<>>, handlers |-> {}, applied |-> <<>>, published |-> {},
     failed |-> NoMsg, done |-> FALSE]

\* the case of internalMsgQueue that writes without the flush (fault
\* injection)
receiveInternal_Buffered(d, ok) ==
    LET mi == Head(d.internalMsgQueue)
        d1 == [d EXCEPT !.internalMsgQueue = Tail(@)] IN
    [d1 EXCEPT !.wal = Append(@, [msg |-> mi, sync |-> FALSE]),
               !.handlers = @ \cup {mi}]

\* case mi = <-cs.internalMsgQueue: WriteSync, panic on its error (the
\* deferred recover runs onExit and the routine is over), else go handleMsg
receiveInternal(d, ok) ==
    LET mi == Head(d.internalMsgQueue)
        d1 == [d EXCEPT !.internalMsgQueue = Tail(@)] IN
    IF ~ok THEN [d1 EXCEPT !.failed = mi, !.done = TRUE]
    ELSE [d1 EXCEPT !.wal = Append(@, [msg |-> mi, sync |-> TRUE]),
                    !.handlers = @ \cup {mi}]

\* case mi = <-cs.peerMsgQueue: Write, go handleMsg
receivePeer(d) ==
    LET mi == Head(d.peerMsgQueue) IN
    [d EXCEPT !.peerMsgQueue = Tail(@),
              !.wal = Append(@, [msg |-> mi, sync |-> FALSE]),
              !.handlers = @ \cup {mi}]

\* case ti := <-cs.aggregatedTockChan: Write, go handleTimeout
receiveTock(d) ==
    LET ti == Head(d.tockChan) IN
    [d EXCEPT !.tockChan = Tail(@),
              !.wal = Append(@, [msg |-> ti, sync |-> FALSE]),
              !.handlers = @ \cup {ti}]

\* handleMsg / handleTimeout under the lock of the RoundState
runHandler(d, mi) ==
    [d EXCEPT !.handlers = @ \ {mi},
              !.applied = Append(@, mi),
              !.published = IF mi.kind = "tock" THEN @ ELSE @ \cup {mi}]

WalStep(next) ==
    /\ nodes' = [nodes EXCEPT !["v1"] = next]
    /\ UNCHANGED <<signerVars, net>>

\* a peer, the node itself or a ticker puts a message on its channel
Enqueue ==
    \E mi \in WalMsgs \ nodes["v1"].sent :
        LET d == [nodes["v1"] EXCEPT !.sent = @ \cup {mi}] IN
        WalStep(IF mi.kind = "peer" THEN [d EXCEPT !.peerMsgQueue = Append(@, mi)]
                ELSE IF mi.kind = "internal"
                     THEN [d EXCEPT !.internalMsgQueue = Append(@, mi)]
                     ELSE [d EXCEPT !.tockChan = Append(@, mi)])

ReceivePeer ==
    /\ ~nodes["v1"].done
    /\ nodes["v1"].peerMsgQueue # <<>>
    /\ WalStep(receivePeer(nodes["v1"]))

ReceiveInternal ==
    /\ ~nodes["v1"].done
    /\ nodes["v1"].internalMsgQueue # <<>>
    /\ \E ok \in BOOLEAN : WalStep(receiveInternal(nodes["v1"], ok))

ReceiveTock ==
    /\ ~nodes["v1"].done
    /\ nodes["v1"].tockChan # <<>>
    /\ WalStep(receiveTock(nodes["v1"]))

\* a started goroutine gets the lock of the RoundState
RunHandler ==
    \E mi \in nodes["v1"].handlers : WalStep(runHandler(nodes["v1"], mi))

WalInit ==
    /\ pv = NewSignState
    /\ file = MarshalJSON(NewSignState)
    /\ res = NoCall
    /\ granted = {}
    /\ ncalls = 0
    /\ thr = <<>>
    /\ nodes = [n \in {"v1"} |-> NewDispatcher]
    /\ net = {}

WalNext ==
    \/ Enqueue
    \/ ReceivePeer
    \/ ReceiveInternal
    \/ ReceiveTock
    \/ RunHandler

SpecWal == WalInit /\ [][WalNext]_vars

\* ========================================================================
\* Part 5: the locks the handlers take.  A handler is the sequence of its
\*         lock operations and of the stretches in which it writes the
\*         fields of a RoundState or cs.state (Begin .. End) or reads
\*         cs.state (ReadBegin .. ReadEnd); the goroutines run these
\*         sequences interleaved.  Target 0 is cs.state with cs.mtx, targets
\*         1 and 2 are the RoundStates of the heights with their locks.
\* ========================================================================
Op(op, target) == [op |-> op, target |-> target]

StateTarget == 0

\* cs.finalizeMtx among the locks
FinalizeMtx == 3

\* addVote of a precommit that completes the commit of a height: under the
\* lock of the height it goes through enterNewRound .. enterCommit, then
\* finalizeCommit (finalizeMtx, updateToState: cs.state = state) and, with
\* SkipTimeoutCommit and all precommits in, enterNewRound(height + 1, 0)
addVoteOps(height, skipTimeoutCommit) ==
    <<Op("Lock", height), Op("Begin", height), Op("End", height),
      Op("Lock", FinalizeMtx), Op("Begin", StateTarget), Op("End", StateTarget),
      Op("Unlock", FinalizeMtx)>>
    \o (IF skipTimeoutCommit
        THEN <<Op("Begin", height + 1), Op("End", height + 1)>> ELSE <<>>)
    \o <<Op("Unlock", height)>>

\* handleTimeout: rs.Lock(), the enter functions of the step, rs.Unlock()
handleTimeoutOps(height) ==
    <<Op("Lock", height), Op("Begin", height), Op("End", height), Op("Unlock", height)>>

\* GetState, GetLastHeight: cs.mtx.RLock(), the read, cs.mtx.RUnlock()
GetStateOps ==
    <<Op("RLock", StateTarget), Op("ReadBegin", StateTarget), Op("ReadEnd", StateTarget),
      Op("RUnlock", StateTarget)>>

\* handleTxsAvailable: cs.mtx.Lock(), cs.GetState() for the height after
\* LastBlockHeight, enterPropose of that height, cs.mtx.Unlock()
handleTxsAvailableOps(height) ==
    <<Op("Lock", StateTarget)>> \o GetStateOps
    \o <<Op("Begin", height), Op("End", height), Op("Unlock", StateTarget)>>

\* the goroutine of scheduleNewHeightRound0: it reads
\* cs.state.LastBlockHeight in its loop
pollerOps == <<Op("ReadBegin", StateTarget), Op("ReadEnd", StateTarget)>>

\* the goroutines of one run
LockHandlers == {"vote1", "tock1", "tock2", "txs", "poller", "getState"}

OpsOf(handler, skipTimeoutCommit) ==
    IF handler = "vote1" THEN addVoteOps(1, skipTimeoutCommit)
    ELSE IF handler = "tock1" THEN handleTimeoutOps(1)
    ELSE IF handler = "tock2" THEN handleTimeoutOps(2)
    ELSE IF handler = "txs" THEN handleTxsAvailableOps(1)
    ELSE IF handler = "poller" THEN pollerOps
    ELSE GetStateOps

\* the next operation of a handler, or none when it has returned
NextOp(d, handler) ==
    LET ops == OpsOf(handler, d.skipTimeoutCommit) IN
    IF d.pc[handler] <= Len(ops) THEN ops[d.pc[handler]] ELSE Op("none", 0)

Advance(d, handler) == [d EXCEPT !.pc[handler] = @ + 1]

LockStep(next) ==
    /\ nodes' = [nodes EXCEPT !["v1"] = next]
    /\ UNCHANGED <<signerVars, net>>

\* Mutex.Lock / RWMutex.Lock: the handler goes on when nobody holds the
\* lock, itself included
Acquire(handler) ==
    LET d == nodes["v1"]
        o == NextOp(d, handler) IN
    /\ o.op = "Lock"
    /\ d.owner[o.target] = "none"
    /\ o.target = StateTarget => d.readers = {}
    /\ LockStep([Advance(d, handler) EXCEPT !.owner[o.target] = handler])

Release(handler) ==
    LET d == nodes["v1"]
        o == NextOp(d, handler) IN
    /\ o.op = "Unlock"
    /\ LockStep([Advance(d, handler) EXCEPT !.owner[o.target] = "none"])

\* RWMutex.RLock: the handler goes on when nobody holds the write lock
AcquireRead(handler) ==
    LET d == nodes["v1"]
        o == NextOp(d, handler) IN
    /\ o.op = "RLock"
    /\ d.owner[StateTarget] = "none"
    /\ LockStep([Advance(d, handler) EXCEPT !.readers = @ \cup {handler}])

ReleaseRead(handler) ==
    LET d == nodes["v1"]
        o == NextOp(d, handler) IN
    /\ o.op = "RUnlock"
    /\ LockStep([Advance(d, handler) EXCEPT !.readers = @ \ {handler}])

\* the handler starts to write the fields of a RoundState or cs.state
BeginWrite(handler) ==
    LET d == nodes["v1"]
        o == NextOp(d, handler) IN
    /\ o.op = "Begin"
    /\ LockStep([Advance(d, handler) EXCEPT !.writers[o.target] = @ \cup {handler}])

EndWrite(handler) ==
    LET d == nodes["v1"]
        o == NextOp(d, handler) IN
    /\ o.op = "End"
    /\ LockStep([Advance(d, handler) EXCEPT !.writers[o.target] = @ \ {handler}])

\* the handler starts to read cs.state
BeginRead(handler) ==
    LET d == nodes["v1"]
        o == NextOp(d, handler) IN
    /\ o.op = "ReadBegin"
    /\ LockStep([Advance(d, handler) EXCEPT !.reading = @ \cup {handler}])

EndRead(handler) ==
    LET d == nodes["v1"]
        o == NextOp(d, handler) IN
    /\ o.op = "ReadEnd"
    /\ LockStep([Advance(d, handler) EXCEPT !.reading = @ \ {handler}])

LocksInit ==
    /\ pv = NewSignState
    /\ file = MarshalJSON(NewSignState)
    /\ res = NoCall
    /\ granted = {}
    /\ ncalls = 0
    /\ thr = <<>>
    /\ net = {}
    /\ \E skipTimeoutCommit \in BOOLEAN :
          nodes = [n \in {"v1"} |->
                      [skipTimeoutCommit |-> skipTimeoutCommit,
                       pc |-> [h \in LockHandlers |-> 1],
                       owner |-> [t \in 0..FinalizeMtx |-> "none"],
                       readers |-> {},
                       writers |-> [t \in 0..2 |-> {}],
                       reading |-> {}]]

LocksNext ==
    \E handler \in LockHandlers :
        \/ Acquire(handler)
        \/ Release(handler)
        \/ AcquireRead(handler)
        \/ ReleaseRead(handler)
        \/ BeginWrite(handler)
        \/ EndWrite(handler)
        \/ BeginRead(handler)
        \/ EndRead(handler)

SpecLocks == LocksInit /\ [][LocksNext]_vars

\* A goroutine that can run does run, and a goroutine that asks for a lock
\* gets it when the lock is free again and again.
SpecLocksFair ==
    /\ SpecLocks
    /\ \A handler \in LockHandlers :
          /\ WF_vars(Release(handler) \/ ReleaseRead(handler) \/ BeginWrite(handler)
                        \/ EndWrite(handler) \/ BeginRead(handler) \/ EndRead(handler))
          /\ SF_vars(Acquire(handler) \/ AcquireRead(handler))

\* ========================================================================
\* Part 6: the block store and LoadCommit.  The store keeps, for each saved
\*         height, the block and the commit seen for it; the commit of a
\*         height becomes canonical in the LastCommit of the block LenULB
\*         heights later.
\* ========================================================================
MaxStoreHeight == 5

NoCommit == [from |-> "nil", height |-> 0, block |-> 0]

\* save_block: the store grows by one height
SaveBlock(store) == [store EXCEPT !.height = @ + 1]

\* load_seen_commit: the commit saved with the block of the height
LoadSeenCommit(store, height) ==
    IF 1 <= height /\ height <= store.height
    THEN [from |-> "seen", height |-> height, block |-> 0]
    ELSE NoCommit

\* load_block_commit: the commit as embedded in the LastCommit of the block
\* at height + LenULB
LoadBlockCommit(store, height) ==
    IF 1 <= height /\ height + store.LenULB <= store.height
    THEN [from |-> "block", height |-> height, block |-> height + store.LenULB]
    ELSE NoCommit

LoadCommit_Strict(store, height) ==
    LET bsHeight == store.height
        distance == bsHeight - height IN
    IF distance < store.LenULB
    THEN LoadSeenCommit(store, height)
    ELSE LoadBlockCommit(store, height)

LoadCommit(store, height) ==
    LET bsHeight == store.height
        distance == bsHeight - height IN
    IF distance <= store.LenULB
    THEN LoadSeenCommit(store, height)
    ELSE LoadBlockCommit(store, height)

StoreStep(next) ==
    /\ nodes' = [nodes EXCEPT !["v1"] = next]
    /\ UNCHANGED <<signerVars, net>>

\* finalizeCommit saves the next block
StoreSaveBlock ==
    LET d == nodes["v1"] IN
    /\ d.store.height < MaxStoreHeight
    /\ StoreStep([d EXCEPT !.store = SaveBlock(@)])

\* a caller asks for the commit of a height
StoreLoadCommit(height) ==
    LET d == nodes["v1"] IN
    StoreStep([d EXCEPT !.height = height,
                        !.bsHeight = d.store.height,
                        !.commit = LoadCommit(d.store, height)])

StoreInit ==
    /\ pv = NewSignState
    /\ file = MarshalJSON(NewSignState)
    /\ res = NoCall
    /\ granted = {}
    /\ ncalls = 0
    /\ thr = <<>>
    /\ net = {}
    /\ \E k \in 1..MaxLenULB :
          nodes = [n \in {"v1"} |->
                      [store |-> [height |-> 0, LenULB |-> k],
                       height |-> 0, bsHeight |-> 0, commit |-> NoCommit]]

StoreNext ==
    \/ StoreSaveBlock
    \/ \E height \in 0..(MaxStoreHeight + 1) : StoreLoadCommit(height)

SpecStore == StoreInit /\ [][StoreNext]_vars

\* ========================================================================
\* Part 7: the fast-sync block pools (v0 and v1) peeking the block at the
\*         pool height and the one whose LastCommit verifies it.  A block is
\*         named by its height, 0 is nil.
\* ========================================================================
MaxPoolHeight == 3

\* the block the requester of a height holds, or nil
BlockAtHeight(pool, height) == IF height \in pool.blocks THEN height ELSE 0

NoPeek == [func |-> "none", ulbLength |-> 0, panic |-> FALSE, first |-> 0, second |-> 0,
           err |-> FALSE]

\* v0 FridayBlockPool.PeekTwoBlocks
PeekTwoBlocks(pool, ulbLength) ==
    IF ulbLength <= 0
    THEN [NoPeek EXCEPT !.func = "v0", !.ulbLength = ulbLength, !.panic = TRUE]
    ELSE [NoPeek EXCEPT !.func = "v0", !.ulbLength = ulbLength,
                        !.first = BlockAtHeight(pool, pool.height),
                        !.second = BlockAtHeight(pool, pool.height + ulbLength)]

\* v1 FridayBlockPool.FirstTwoBlocksAndPeers: err is the error of the first
\* block, or else of the second
FirstTwoBlocksAndPeers(pool, ulbLength) ==
    IF ulbLength < 0
    THEN [NoPeek EXCEPT !.func = "v1", !.ulbLength = ulbLength, !.panic = TRUE]
    ELSE [NoPeek EXCEPT !.func = "v1", !.ulbLength = ulbLength,
                        !.first = BlockAtHeight(pool, pool.height),
                        !.second = BlockAtHeight(pool, pool.height + ulbLength),
                        !.err = \/ BlockAtHeight(pool, pool.height) = 0
                                \/ BlockAtHeight(pool, pool.height + ulbLength) = 0]

PoolStep(next) ==
    /\ nodes' = [nodes EXCEPT !["v1"] = next]
    /\ UNCHANGED <<signerVars, net>>

\* a peer delivers the block of a requested height
PoolAddBlock(height) ==
    LET d == nodes["v1"] IN
    /\ height >= d.pool.height
    /\ height \notin d.pool.blocks
    /\ PoolStep([d EXCEPT !.pool.blocks = @ \cup {height}, !.peek = NoPeek])

\* the first block is processed: the pool moves to the next height
PoolPopRequest ==
    LET d == nodes["v1"] IN
    /\ d.pool.height \in d.pool.blocks
    /\ d.pool.height < MaxPoolHeight
    /\ PoolStep([d EXCEPT !.pool.blocks = @ \ {d.pool.height},
                           !.pool.height = @ + 1,
                           !.peek = NoPeek])

\* the reactor peeks; ulbLength is what the ULBLengthHandler returns
PoolPeekV0(ulbLength) ==
    LET d == nodes["v1"] IN
    PoolStep([d EXCEPT !.peek = PeekTwoBlocks(d.pool, ulbLength)])

PoolPeekV1(ulbLength) ==
    LET d == nodes["v1"] IN
    PoolStep([d EXCEPT !.peek = FirstTwoBlocksAndPeers(d.pool, ulbLength)])

PoolInit ==
    /\ pv = NewSignState
    /\ file = MarshalJSON(NewSignState)
    /\ res = NoCall
    /\ granted = {}
    /\ ncalls = 0
    /\ thr = <<>>
    /\ net = {}
    /\ nodes = [n \in {"v1"} |-> [pool |-> [height |-> 1, blocks |-> {}], peek |-> NoPeek]]

PoolNext ==
    \/ \E height \in 1..(MaxPoolHeight + MaxLenULB) : PoolAddBlock(height)
    \/ PoolPopRequest
    \/ \E ulbLength \in (0 - 1)..MaxLenULB : PoolPeekV0(ulbLength)
    \/ \E ulbLength \in (0 - 1)..MaxLenULB : PoolPeekV1(ulbLength)

SpecPool == PoolInit /\ [][PoolNext]_vars

\* ========================================================================
\* Part 8: the account store: one database with the key spaces outqueue,
\*         pending and lookup, each keyed by the name of the account.
\* ========================================================================
AccountNames == {"alice", "bryanrhee"}

AccountKeys == {"key1", "key2"}

UnitAccounts == [ID : AccountNames, PubKey : AccountKeys]

\* UnitAccount{}, AccountInfo{}
NoUnitAccount == [ID |-> "", PubKey |-> ""]

NoAccountInfo == [Committed |-> FALSE, UnitAccount |-> NoUnitAccount]

\* NewAccountStore on an empty database; an absent key holds AccountInfo{}
NewAccountStore ==
    [outqueue |-> [name \in AccountNames |-> NoAccountInfo],
     pending |-> [name \in AccountNames |-> NoAccountInfo],
     lookup |-> [name \in AccountNames |-> NoAccountInfo]]

\* GetAccountInfo: the value under the lookup key of the name
GetAccountInfo(store, unitAccount) == store.lookup[unitAccount.ID]

\* PendingAccount(-1): the accounts under the pending keys
PendingAccount(store) ==
    {store.pending[name].UnitAccount :
        name \in {n \in AccountNames : store.pending[n] # NoAccountInfo}}

\* AddNewAccount looking for the account among the pending ones (fault
\* injection)
AddNewAccount_CheckPending(store, unitAccount) ==
    LET acc == [Committed |-> FALSE, UnitAccount |-> unitAccount] IN
    IF store.pending[unitAccount.ID].UnitAccount # NoUnitAccount
    THEN [store |-> store, added |-> FALSE]
    ELSE [store |-> [store EXCEPT !.outqueue[unitAccount.ID] = acc,
                                  !.pending[unitAccount.ID] = acc,
                                  !.lookup[unitAccount.ID] = acc],
          added |-> TRUE]

\* AddNewAccount: the store after the call and the value returned
AddNewAccount(store, unitAccount) ==
    LET acc == [Committed |-> FALSE, UnitAccount |-> unitAccount] IN
    IF GetAccountInfo(store, unitAccount).UnitAccount # NoUnitAccount
    THEN [store |-> store, added |-> FALSE]
    ELSE [store |-> [store EXCEPT !.outqueue[unitAccount.ID] = acc,
                                  !.pending[unitAccount.ID] = acc,
                                  !.lookup[unitAccount.ID] = acc],
          added |-> TRUE]

MarkAccountAsBroadcasted(store, unitAccount) ==
    IF GetAccountInfo(store, unitAccount).UnitAccount = NoUnitAccount
    THEN store
    ELSE [store EXCEPT !.outqueue[unitAccount.ID] = NoAccountInfo]

MarkAccountAsCommitted(store, unitAccount) ==
    [MarkAccountAsBroadcasted(store, unitAccount) EXCEPT
        !.pending[unitAccount.ID] = NoAccountInfo,
        !.lookup[unitAccount.ID] = [Committed |-> TRUE, UnitAccount |-> unitAccount]]

AccountStep(next) ==
    /\ nodes' = [nodes EXCEPT !["v1"] = next]
    /\ UNCHANGED <<signerVars, net>>

AddAccount(unitAccount) ==
    LET d == nodes["v1"]
        r == AddNewAccount(d.store, unitAccount) IN
    AccountStep([d EXCEPT !.store = r.store,
                          !.seen = @ \cup {unitAccount.ID},
                          !.last = [op |-> "AddNewAccount", account |-> unitAccount,
                                    added |-> r.added]])

BroadcastAccount(unitAccount) ==
    LET d == nodes["v1"] IN
    AccountStep([d EXCEPT !.store = MarkAccountAsBroadcasted(d.store, unitAccount),
                          !.last = [op |-> "MarkAccountAsBroadcasted", account |-> unitAccount,
                                    added |-> FALSE]])

CommitAccount(unitAccount) ==
    LET d == nodes["v1"] IN
    AccountStep([d EXCEPT !.store = MarkAccountAsCommitted(d.store, unitAccount),
                          !.last = [op |-> "MarkAccountAsCommitted", account |-> unitAccount,
                                    added |-> FALSE]])

\* seen: the names AddNewAccount was called with
AccountInit ==
    /\ pv = NewSignState
    /\ file = MarshalJSON(NewSignState)
    /\ res = NoCall
    /\ granted = {}
    /\ ncalls = 0
    /\ thr = <<>>
    /\ net = {}
    /\ nodes = [n \in {"v1"} |->
                    [store |-> NewAccountStore, seen |-> {},
                     last |-> [op |-> "none", account |-> NoUnitAccount, added |-> FALSE]]]

AccountNext ==
    \E unitAccount \in UnitAccounts :
        \/ AddAccount(unitAccount)
        \/ BroadcastAccount(unitAccount)
        \/ CommitAccount(unitAccount)

SpecAccounts == AccountInit /\ [][AccountNext]_vars

\* ========================================================================
\* Part 9: the gate of finalizeCommit: the calls for the heights run as
\*         goroutines that serialize on cs.finalizeMtx; a call whose height
\*         is not LastBlockHeight + 1 raises cs.waitFinalize and waits on
\*         cs.waitFinalizeCond, and a call that has promoted the state
\*         broadcasts when the flag is raised.
\* ========================================================================
MaxGateHeight == 4

GateHeights == 1..MaxGateHeight

\* the wait of the loop: the flag is raised only by a call that has not
\* waited before (fault injection)
waitFinalize_FlagOnce(d, height) ==
    [d EXCEPT !.waitFinalize = IF height \in d.waited THEN @ ELSE 1,
              !.waited = @ \cup {height},
              !.pc[height] = "waiting",
              !.owner = 0]

\* atomic.StoreInt32(&cs.waitFinalize, 1); cs.waitFinalizeCond.Wait(): the
\* call joins the waiters and releases the mutex in one step
waitFinalize(d, height) ==
    [d EXCEPT !.waitFinalize = 1,
              !.waited = @ \cup {height},
              !.pc[height] = "waiting",
              !.owner = 0]

\* the end of finalizeCommit: Broadcast wakes every waiter when the flag is
\* raised, the flag is lowered, and the deferred Unlock runs
notifyFinalize(d, height) ==
    [d EXCEPT !.pc = [h \in GateHeights |->
                         IF h = height THEN "done"
                         ELSE IF d.waitFinalize = 1 /\ d.pc[h] = "waiting" THEN "woken"
                         ELSE d.pc[h]],
              !.waitFinalize = 0,
              !.owner = 0]

GateStep(next) ==
    /\ nodes' = [nodes EXCEPT !["v1"] = next]
    /\ UNCHANGED <<signerVars, net>>

\* cs.finalizeMtx.Lock() at the start of the call, or in Wait after a wake-up
GateLock(height) ==
    LET d == nodes["v1"] IN
    /\ d.pc[height] \in {"start", "woken"}
    /\ d.owner = 0
    /\ GateStep([d EXCEPT !.owner = height, !.pc[height] = "check"])

\* one turn of the loop: the call goes on when its height is
\* LastBlockHeight + 1 and waits otherwise
GateCheck(height) ==
    LET d == nodes["v1"] IN
    /\ d.pc[height] = "check"
    /\ GateStep(IF height = d.LastBlockHeight + 1
                THEN [d EXCEPT !.pc[height] = "apply"]
                ELSE waitFinalize(d, height))

\* the block is saved and applied, updateToState promotes the state
GateApply(height) ==
    LET d == nodes["v1"] IN
    /\ d.pc[height] = "apply"
    /\ GateStep([d EXCEPT !.LastBlockHeight = height, !.pc[height] = "notify"])

GateNotify(height) ==
    LET d == nodes["v1"] IN
    /\ d.pc[height] = "notify"
    /\ GateStep(notifyFinalize(d, height))

\* enterCommit has started a call for every height, in any order
GateInit ==
    /\ pv = NewSignState
    /\ file = MarshalJSON(NewSignState)
    /\ res = NoCall
    /\ granted = {}
    /\ ncalls = 0
    /\ thr = <<>>
    /\ net = {}
    /\ nodes = [n \in {"v1"} |->
                    [pc |-> [h \in GateHeights |-> "start"],
                     owner |-> 0, waitFinalize |-> 0, waited |-> {},
                     LastBlockHeight |-> 0]]

GateNext ==
    \E height \in GateHeights :
        \/ GateLock(height)
        \/ GateCheck(height)
        \/ GateApply(height)
        \/ GateNotify(height)

SpecGate == GateInit /\ [][GateNext]_vars

\* A goroutine that can run does run, and sync.Mutex hands the lock to a
\* goroutine that keeps asking for it (starvation mode).
SpecGateFair ==
    /\ SpecGate
    /\ \A height \in GateHeights :
          /\ WF_vars(GateCheck(height) \/ GateApply(height) \/ GateNotify(height))
          /\ SF_vars(GateLock(height))

\* ------------------------------------------------------------------------
\* Properties of the signer
\* ------------------------------------------------------------------------
IsSignStep == res'.op \in SignOps

\* the entry stored for the requested height before the call, if any
HasEntry(ss, h) == h \in DOMAIN ss.HeightSignStateMap

\* C4: two requests for the same (height, round, step) whose sign-bytes
\* differ in more than the timestamp never both obtain a signature: once one
\* request has returned with a signature, every later request for the same
\* (height, round, step) with another payload returns "conflicting data" or
\* a regression error and is left unsigned.
C4_NonEquivocation ==
    \A g \in granted :
        (/\ res.op \in SignOps
         /\ res.h = g.h /\ res.r = g.r /\ res.s = g.s
         /\ SignBytesPayload(res.req) # g.payload)
        => (/\ res.err \in RegressionErrors \cup {ErrConflictingData}
            /\ res.sig = NoSig)

\* a later request for the remembered (height, round, step) with another
\* payload was made, after a SetImmutableHeight or not
C4_Witness ==
    \E g \in granted :
        /\ res.op \in SignOps
        /\ res.h = g.h /\ res.r = g.r /\ res.s = g.s
        /\ SignBytesPayload(res.req) # g.payload
        /\ res.err = ErrConflictingData

\* the request regresses against the state ss
Regresses(ss, h, r, s) ==
    \/ h <= ss.ImmutableHeight
    \/ /\ HasEntry(ss, h)
       /\ \/ r < ss.HeightSignStateMap[h].Round
          \/ r = ss.HeightSignStateMap[h].Round /\ s < ss.HeightSignStateMap[h].Step

LexLeq(r1, s1, r2, s2) == r1 < r2 \/ (r1 = r2 /\ s1 <= s2)

\* C5: a sign request that regresses (height at or below the watermark, lower
\* round, or same round and lower step) fails with a regression error, is left
\* unsigned and leaves the stored state and the file unchanged; over every
\* sign call the (round, step) stored for a height never decreases.
C5_SignerMonotonicity ==
    [][IsSignStep =>
        /\ Regresses(pv, res'.h, res'.r, res'.s) =>
               /\ res'.err \in RegressionErrors
               /\ res'.sig = NoSig
               /\ pv' = pv
               /\ file' = file
        /\ \A h \in DOMAIN pv.HeightSignStateMap :
               /\ HasEntry(pv', h)
               /\ LexLeq(pv.HeightSignStateMap[h].Round, pv.HeightSignStateMap[h].Step,
                         pv'.HeightSignStateMap[h].Round, pv'.HeightSignStateMap[h].Step)
      ]_signerVars

\* a request was refused for its step, and one for its round, against an entry
C5_Witness ==
    /\ res.op \in SignOps
    /\ res.err \in {ErrStepRegression, ErrRoundRegression}
    /\ HasEntry(pv, res.h)
    /\ LexLeq(res.r, res.s, pv.HeightSignStateMap[res.h].Round, pv.HeightSignStateMap[res.h].Step)

\* C6: a request for an (h, r, s) that is stored already returns the stored
\* signature when the sign-bytes are equal, the stored signature and the
\* stored timestamp when only the timestamp differs, and "conflicting data"
\* otherwise; nothing is signed and the state and the file stay as they are.
C6_Resign ==
    [][(/\ IsSignStep
        /\ HasEntry(pv, res'.h)
        /\ pv.HeightSignStateMap[res'.h].Round = res'.r
        /\ pv.HeightSignStateMap[res'.h].Step = res'.s) =>
        LET exist == pv.HeightSignStateMap[res'.h] IN
        /\ ~res'.fresh
        /\ pv' = pv
        /\ file' = file
        /\ IF res'.req = exist.SignBytes
           THEN res'.err = ErrNone /\ res'.sig = exist.Signature
                /\ res'.ts = SignBytesTime(res'.req)
           ELSE IF SignBytesPayload(res'.req) = SignBytesPayload(exist.SignBytes)
                THEN res'.err = ErrNone /\ res'.sig = exist.Signature
                     /\ res'.ts = SignBytesTime(exist.SignBytes)
                ELSE res'.err = ErrConflictingData /\ res'.sig = NoSig
      ]_signerVars

\* C7: after a SetImmutableHeight(h) that succeeded the watermark is h and no
\* entry at or below h is left in the map.
C7_PrunedUpToWatermark ==
    (res.op = "SetImmutableHeight" /\ res.err = ErrNone) =>
        /\ pv.ImmutableHeight = res.h
        /\ \A k \in DOMAIN pv.HeightSignStateMap : k > res.h

\* C8: the watermark never decreases over the calls of the signer:
\* SetImmutableHeight below the watermark returns an error and changes
\* nothing, Reset empties the map and keeps the watermark.
C8_WatermarkMonotone ==
    [][/\ res'.op # "Reload" => pv'.ImmutableHeight >= pv.ImmutableHeight
       /\ (res'.op = "SetImmutableHeight" /\ res'.h < pv.ImmutableHeight) =>
              /\ res'.err = ErrImmutableRegression
              /\ pv' = pv
              /\ file' = file
       /\ res'.op = "Reset" =>
              /\ pv'.HeightSignStateMap = EmptyMap
              /\ pv'.ImmutableHeight = pv.ImmutableHeight
      ]_signerVars

\* a SetImmutableHeight below a positive watermark was refused while entries
\* were stored
C8_Witness ==
    /\ res.op = "SetImmutableHeight"
    /\ res.err = ErrImmutableRegression
    /\ res.h < pv.ImmutableHeight
    /\ DOMAIN pv.HeightSignStateMap # {}

\* the record the state file holds for a height, if any
FileHasEntry(h) == HeightKey(h) \in DOMAIN file.height_sign_states

\* C9: whenever a handler has returned from SignVote / SignProposal with a
\* fresh signature for (h, r, s), the state file holds the record {r, s,
\* sign-bytes, signature} of h, as long as the signer's memory still holds
\* that record (it is neither superseded nor pruned); also while handlers of
\* other heights sign and save.
C9_PersistBeforeRelease ==
    \A t \in DOMAIN thr :
        LET entry == [Round |-> thr[t].r, Step |-> thr[t].s,
                      Signature |-> thr[t].sig, SignBytes |-> thr[t].req] IN
        (/\ thr[t].pc = "returned"
         /\ HasEntry(pv, t)
         /\ pv.HeightSignStateMap[t] = entry)
        => (FileHasEntry(t) /\ file.height_sign_states[HeightKey(t)] = entry)

\* ------------------------------------------------------------------------
\* Properties of the coordinator (one node)
\* ------------------------------------------------------------------------
solo == nodes["v1"]

\* the events of a kind recorded for a height
Events(kind, height) ==
    {i \in 1..Len(solo.trace) : solo.trace[i].kind = kind /\ solo.trace[i].height = height}

Finalized(height) == Events("promote", height) # {}

\* C2: for every height, finalizeCommit saves at most one block to the block
\* store and promotes the state at most once, whatever the interleaving of
\* the handlers of the heights in progress.
C2_CommitUniqueness ==
    \A h \in 1..(MaxHeight + 1) :
        /\ Cardinality(Events("save", h)) <= 1
        /\ Cardinality(Events("promote", h)) <= 1

\* a height is finalized and finalizeCommit has been called for it again,
\* from the commit of a later round
C2_Witness ==
    \E h \in Heights :
        /\ Finalized(h)
        /\ \E i \in Events("wait", h) : solo.trace[i].last >= h

\* C3: finalizeCommit(H) saves block H, writes EndHeight(H) and promotes the
\* state only while LastBlockHeight = H - 1, so LastBlockHeight goes from h to
\* h + 1 and the heights are finalized in consecutive order.
C3_FinalizeInOrder ==
    /\ \A i \in 1..Len(solo.trace) :
           solo.trace[i].kind \in {"save", "end", "promote"}
               => solo.trace[i].last = solo.trace[i].height - 1
    /\ \A h \in 2..(MaxHeight + 1) : Finalized(h) => Finalized(h - 1)
    /\ solo.state.LastBlockHeight =
           Cardinality({h \in 1..(MaxHeight + 1) : Finalized(h)})

\* finalize of height 2 was requested, and waited, before height 1 was
\* finalized, and both are finalized
C3_Witness ==
    /\ \E i \in Events("wait", 2) : solo.trace[i].last = 0
    /\ Finalized(1)
    /\ Finalized(2)

\* C10: once finalize of height H has completed, the immutable height of the
\* signer is at least H.
C10_WatermarkPinned ==
    solo.privValidator.ImmutableHeight >= solo.state.LastBlockHeight

\* C11: when the finalize of a height H > k completes, the RoundState and the
\* ticker of H - k are gone from their maps (a ticker out of the map is
\* stopped: no timeout of it fires any more), the RoundStates of H - k + 1 .. H
\* are still there, and a height whose RoundState is removed is one the block
\* store holds.
C11_RollingWindow ==
    [][/\ \A H \in Heights :
            (/\ H > LenULB
             /\ solo.state.LastBlockHeight < H
             /\ solo'.state.LastBlockHeight = H)
            => /\ (H - LenULB) \notin DOMAIN solo'.roundStates
               /\ (H - LenULB) \notin DOMAIN solo'.timeoutTickers
               /\ (H - LenULB + 1)..H \subseteq DOMAIN solo'.roundStates
       /\ \A h \in DOMAIN solo.roundStates \ DOMAIN solo'.roundStates :
            /\ h \in DOMAIN solo'.blockStore
            /\ h = solo'.state.LastBlockHeight - LenULB]_vars

C11_Witness ==
    /\ solo.state.LastBlockHeight = LenULB + 1
    /\ Finalized(LenULB + 1)
    /\ 1 \notin DOMAIN solo.roundStates
    /\ 1 \notin DOMAIN solo.timeoutTickers
    /\ 2..(LenULB + 1) \subseteq DOMAIN solo.roundStates

\* the heights that have a RoundState which finalizeCommit has not completed
LiveHeights == {h \in DOMAIN solo.roundStates : solo.roundStates[h].CommitRound = -1}

Gated ==
    /\ \A h \in solo.newHeightPollers \ solo'.newHeightPollers :
           h - LenULB <= solo.state.LastBlockHeight
    /\ \A h \in DOMAIN solo'.roundStates :
           h - LenULB <= solo'.state.LastBlockHeight
    /\ \A h \in solo'.newHeightPollers \ solo.newHeightPollers :
           h > solo'.state.LastBlockHeight

C14_PipelineReferences ==
    (solo.outcome = "finalized" /\ solo.block.Height > LenULB) =>
        LET ulbHeight == solo.block.Height - LenULB
            commit == solo.block.LastCommit IN
        /\ solo.block.AppHash = AppHashOf(ulbHeight)
        /\ solo.block.LastResultsHash = ResultsHashOf(ulbHeight)
        /\ commit.Slots = Cardinality(ValidatorsOf(ulbHeight))
        /\ commit.BlockID = BlockIDOf(ulbHeight)
        /\ 3 * Cardinality(commit.Signers \cap ValidatorsOf(ulbHeight))
               > 2 * Cardinality(ValidatorsOf(ulbHeight))

C14_Witness ==
    /\ solo.outcome = "finalized"
    /\ solo.block.Height = LenULB + 2
    /\ solo.block.LastCommit.Slots = 4

\* a height above has its +2/3 precommits for a block
CommitCollected(height) ==
    /\ HasRoundState(solo, height)
    /\ \E r \in 0..MaxRound :
          /\ HasTwoThirdsMajority(solo.state.Validators, solo.roundStates[height].Votes,
                                  PrecommitType, r)
          /\ TwoThirdsMajority(solo.state.Validators, solo.roundStates[height].Votes,
                               PrecommitType, r) # NilID

\* C15: with k = 1, height 1 is finalized only after +2/3 precommits for the
\* block of height 2 have been collected.
C15_FinalizeAfterNextCommit ==
    Finalized(1) => CommitCollected(1 + solo.state.LenULB)

\* the place of a message in the WAL (0: not there)
WalIndex(mi) ==
    LET at == {i \in 1..Len(solo.wal) : solo.wal[i].msg = mi} IN
    IF at = {} THEN 0 ELSE CHOOSE i \in at : TRUE

Handed == solo.handlers \cup {solo.applied[i] : i \in 1..Len(solo.applied)}

\* C16: a message of the node itself that is handed to a handler, applied
\* or published is in the WAL, written with the flush; and a message whose
\* flush failed is never handed to a handler and ends the routine.
C16_WalBeforeBroadcast ==
    /\ \A mi \in Handed \cup solo.published :
          mi.kind = "internal" => WalIndex(mi) # 0 /\ solo.wal[WalIndex(mi)].sync
    /\ solo.failed # NoMsg =>
          /\ solo.done
          /\ solo.failed \notin Handed \cup solo.published
          /\ WalIndex(solo.failed) = 0

C16_Witness ==
    /\ \E mi \in solo.published : mi.kind = "internal"
    /\ Len(solo.wal) > 1

\* C17: messages and timeouts are applied in the order in which the
\* dispatcher wrote them to the WAL.
C17_WalOrderIsProcessingOrder ==
    \A i, j \in 1..Len(solo.applied) :
        i < j => WalIndex(solo.applied[i]) < WalIndex(solo.applied[j])

\* the votes of a type and round that a step adds at a height
AddedVotes(h, type, round) ==
    {v \in solo'.roundStates[h].Votes \ solo.roundStates[h].Votes :
        v.Type = type /\ v.Round = round}

\* C18: when a step adds a vote of a round R' above the round of the height
\* and the votes of that type and round then hold +2/3 of the power for
\* anything, the height is in round R', past NewHeight, after the step.
C18_RoundSkip ==
    [][\A h \in DOMAIN solo.roundStates \cap DOMAIN solo'.roundStates :
         \A type \in {PrevoteType, PrecommitType} :
           \A round \in 1..MaxRound :
             (/\ solo.roundStates[h].Round < round
              /\ AddedVotes(h, type, round) # {}
              /\ HasTwoThirdsAny(solo.state.Validators, solo'.roundStates[h].Votes,
                                 type, round))
             => /\ solo'.roundStates[h].Round = round
                /\ solo'.roundStates[h].Step >= RoundStepNewRound]_vars

\* the node was taken to round 1 by prevotes: it has no vote of round 0 past
\* its prevote and no timeout took it there
C18_Witness ==
    /\ HasRoundState(solo, 2)
    /\ solo.roundStates[2].Round = 1
    /\ HasTwoThirdsAny(solo.state.Validators, solo.roundStates[2].Votes, PrevoteType, 1)
    /\ ~Voted(solo, 2, PrecommitType, 0, "v1")

\* C19: a vote found conflicting makes tryAddVote return the conflict error;
\* the evidence of every conflict of another validator is in the evidence
\* pool, and the pool holds nothing about the node itself.
C19_EvidenceOfOthers ==
    /\ [][solo'.conflicts # solo.conflicts =>
             solo'.voteErr = "ErrVoteConflictingVotes"]_vars
    /\ [](/\ \A c \in solo.conflicts :
               c.Val # solo.me =>
                 \E ev \in solo.evpool :
                     ev.Val = c.Val /\ ev.Height = c.Height /\ ev.VoteB = c.BlockID
          /\ \A ev \in solo.evpool : ev.Val # solo.me /\ ev.VoteA # ev.VoteB)

C19_Witness ==
    /\ \E c \in solo.conflicts : c.Val # solo.me
    /\ solo.evpool # {}

\* a conflicting vote with the address of the node has been found
OwnConflict == \E c \in solo.conflicts : c.Val = solo.me

\* C20: once a conflicting vote with the node's own address is found, no
\* message or timeout is processed and no vote is signed any more.
C20_HaltOnOwnConflict ==
    [][OwnConflict => UNCHANGED nodes]_vars

\* what can be fed to the node: the messages of the peers and the first of
\* its own
Feedable(cs) ==
    PeerMsgs(cs, DOMAIN cs.state.Validators \ {cs.me})
    \cup {cs.internalMsgQueue[i] : i \in DOMAIN cs.internalMsgQueue \cap {1}}

\* C21: in every reachable state, the same proposal, block part or vote fed
\* a second time leaves the node as the first time left it: RoundStates,
\* signer state, queue of own messages, tickers, State and block store.
C21_IdempotentIngestion ==
    \A m \in Feedable(solo) :
        handleMsg(handleMsg(solo, m), m) = handleMsg(solo, m)

\* a state in which a proposal, a block part and a vote each change the node
\* when fed once
C21_Witness ==
    \A kind \in {"proposal", "part", "vote"} :
        \E m \in PeerMsgs(solo, DOMAIN solo.state.Validators \ {solo.me}) :
            m.kind = kind /\ handleMsg(solo, m).roundStates # solo.roundStates

C23_PerHeightOwnership ==
    \A h \in 1..2 :
        /\ \A handler \in solo.writers[h] : solo.owner[h] = handler
        /\ Cardinality(solo.writers[h]) <= 1

\* C24: cs.state is read under the read lock (or the write lock) of cs.mtx
\* and written under its write lock, so nobody reads it while it is written.
C24_StateLockPolicy ==
    /\ \A handler \in solo.reading :
          handler \in solo.readers \/ solo.owner[StateTarget] = handler
    /\ \A handler \in solo.writers[StateTarget] : solo.owner[StateTarget] = handler
    /\ solo.writers[StateTarget] # {} => solo.reading = {}

\* C25: LoadCommit(h) is the seen commit of h when the store height minus h
\* is at most LenULB, and the commit embedded in block h + LenULB otherwise.
C25_LoadCommit ==
    LET asked == [height |-> solo.bsHeight, LenULB |-> solo.store.LenULB] IN
    /\ solo.bsHeight - solo.height <= solo.store.LenULB
          => /\ solo.commit = LoadSeenCommit(asked, solo.height)
             /\ solo.commit.from # "block"
    /\ solo.bsHeight - solo.height > solo.store.LenULB
          => /\ solo.commit = LoadBlockCommit(asked, solo.height)
             /\ solo.commit.from # "seen"
             /\ solo.height >= 1 => /\ solo.commit.from = "block"
                                    /\ solo.commit.block = solo.height + solo.store.LenULB
                                    /\ solo.commit.block <= solo.bsHeight

\* the seen commit is returned at the distance LenULB and the embedded one
\* at the distance LenULB + 1
C25_Witness ==
    /\ solo.store.LenULB = MaxLenULB
    /\ solo.height = 2
    /\ solo.bsHeight = 2 + MaxLenULB + 1
    /\ solo.commit = [from |-> "block", height |-> 2, block |-> 2 + MaxLenULB]

C25_WitnessSeen ==
    /\ solo.bsHeight - solo.height = solo.store.LenULB
    /\ solo.commit.from = "seen"

\* C26: a block at a height not above LastBlockHeight is rejected; its
\* LastBlockID is compared with the committed meta of the height below, and
\* a difference reported as a mismatch, exactly when that height is above 0
\* and committed.
C26_HeightAndPrevBlock ==
    LET height == solo.block.Height
        last == solo.state.LastBlockHeight IN
    solo.err # "none" =>
        /\ height <= last => solo.err = "WrongHeight"
        /\ solo.err = "mismatch" <=>
              /\ height > last
              /\ 0 < height - 1 /\ height - 1 <= last
              /\ solo.block.LastBlockID # BlockIDOf(height - 1)

\* C26 as stated: the comparison is made exactly when the height below is
\* above 1 and committed.
C26_Original ==
    LET height == solo.block.Height
        last == solo.state.LastBlockHeight IN
    solo.err # "none" =>
        /\ height <= last => solo.err = "WrongHeight"
        /\ solo.err = "mismatch" <=>
              /\ height > last
              /\ 1 < height - 1 /\ height - 1 <= last
              /\ solo.block.LastBlockID # BlockIDOf(height - 1)

\* the block of height 2 with a wrong link to the committed first block
C26_Witness ==
    /\ solo.block.Height = 2
    /\ solo.state.LastBlockHeight = 1
    /\ solo.block.LastBlockID # BlockIDOf(1)
    /\ solo.err = "mismatch"

\* a block ahead of the committed height passes with any link
C26_WitnessAhead ==
    /\ solo.block.Height = solo.state.LastBlockHeight + 2
    /\ solo.block.LastBlockID = NilHash
    /\ solo.err = "ok"

\* C27: the validators hash of a block at height h is checked against the
\* set of height 1 when h <= k + 1 and of height h otherwise; the next
\* validators hash is checked against the set of h + 1 exactly when
\* h >= k + 1.
C27_ValidatorBinding ==
    LET h == solo.block.Height
        k == solo.state.LenULB
        bound == ValidatorsOf(IF h <= k + 1 THEN 1 ELSE h)
        passedValidators == {"WrongNextValidatorsHash", "InvalidCommit", "WrongProposer", "ok"}
        passedNext == {"InvalidCommit", "WrongProposer", "ok"} IN
    /\ solo.err = "WrongValidatorsHash" => solo.block.ValidatorsHash # bound
    /\ solo.err \in passedValidators => solo.block.ValidatorsHash = bound
    /\ solo.err = "WrongNextValidatorsHash" =>
          h >= k + 1 /\ solo.block.NextValidatorsHash # ValidatorsOf(h + 1)
    /\ (solo.err \in passedNext /\ h >= k + 1) =>
          solo.block.NextValidatorsHash = ValidatorsOf(h + 1)

\* at height k + 1 the set of height 1 and the set of height k + 2 are the
\* ones the block is bound to
C27_Witness ==
    /\ solo.block.Height = solo.state.LenULB + 1
    /\ solo.state.LenULB = MaxLenULB
    /\ solo.block.ValidatorsHash = ValidatorsOf(1)
    /\ solo.block.NextValidatorsHash = ValidatorsOf(solo.block.Height + 1)
    /\ solo.err = "ok"

\* heights 1, k and k + 2
C27_WitnessFirst ==
    /\ solo.block.Height = 1
    /\ solo.block.NextValidatorsHash # ValidatorsOf(2)
    /\ solo.err = "ok"

C27_WitnessBelow ==
    /\ solo.block.Height = solo.state.LenULB
    /\ solo.state.LenULB = MaxLenULB
    /\ solo.block.NextValidatorsHash # ValidatorsOf(solo.block.Height + 1)
    /\ solo.err = "ok"

C27_WitnessAbove ==
    /\ solo.block.Height = solo.state.LenULB + 2
    /\ solo.state.LenULB = MaxLenULB
    /\ solo.block.ValidatorsHash = ValidatorsOf(solo.block.Height)
    /\ solo.err = "ok"

\* C28: evidence is too old exactly when LastBlockHeight minus its height is
\* above MaxAge; evidence not too old is rejected when its address is not in
\* the validator set of its height; evidence that passes both is rejected
\* when its signatures are not the validator's; the first failure is the
\* one returned.
C28_VerifyEvidence ==
    LET ev == solo.evidence
        tooOld == solo.state.LastBlockHeight - ev.Height > solo.state.MaxAge
        member == HasValidators(solo.state, ev.Height) /\ ev.Address \in ValidatorsOf(ev.Height)
        signed == ev.Signer = ev.Address IN
    solo.err # "none" =>
        /\ solo.err = "TooOld" <=> tooOld
        /\ solo.err \in {"NotValidator", "NoValidators"} <=> (~tooOld /\ ~member)
        /\ solo.err = "NotValidator" => HasValidators(solo.state, ev.Height)
        /\ solo.err = "BadSignature" <=> (~tooOld /\ member /\ ~signed)
        /\ solo.err = "ok" <=> (~tooOld /\ member /\ signed)

\* with MaxAge 100 and the last height 500, evidence of height 350 is too old
\* although its address is no validator of that height
C28_Witness ==
    /\ solo.state.MaxAge = ExampleMaxAge
    /\ solo.state.LastBlockHeight = ExampleLastHeight
    /\ solo.evidence.Height = ExampleLastHeight - ExampleMaxAge - 50
    /\ solo.evidence.Address \notin ValidatorsOf(solo.evidence.Height)
    /\ solo.err = "TooOld"

\* evidence of height 410 and of height 400 passes the check of the age
C28_WitnessRecent ==
    /\ solo.state.MaxAge = ExampleMaxAge
    /\ solo.state.LastBlockHeight = ExampleLastHeight
    /\ solo.evidence.Height = ExampleLastHeight - ExampleMaxAge + 10
    /\ solo.err = "ok"

C28_WitnessEdge ==
    /\ solo.state.MaxAge = ExampleMaxAge
    /\ solo.state.LastBlockHeight = ExampleLastHeight
    /\ solo.evidence.Height = ExampleLastHeight - ExampleMaxAge
    /\ solo.err = "BadSignature"

\* C29: a peek with a ULB length k >= 1 returns the block at the pool height
\* as the first and the block at the pool height + k as the second, nil when
\* absent (an error in v1); with k <= 0 nothing is peeked.
C29_PeekTwoBlocks ==
    LET peek == solo.peek
        first == BlockAtHeight(solo.pool, solo.pool.height)
        second == BlockAtHeight(solo.pool, solo.pool.height + peek.ulbLength) IN
    peek.func # "none" =>
        /\ peek.ulbLength <= 0 => peek.panic
        /\ peek.ulbLength >= 1 =>
              /\ ~peek.panic
              /\ peek.first = first
              /\ peek.second = second
              /\ peek.func = "v1" => (peek.err <=> (first = 0 \/ second = 0))

\* the peeks of v0 alone
C29_PeekTwoBlocksV0 ==
    solo.peek.func = "v0" => C29_PeekTwoBlocks

\* v0 has peeked the first block and the one MaxLenULB above
C29_WitnessV0 ==
    /\ solo.peek.func = "v0"
    /\ solo.peek.ulbLength = MaxLenULB
    /\ solo.pool.height = 2
    /\ solo.peek.first = 2
    /\ solo.peek.second = 2 + MaxLenULB

\* C30: in every store the program reaches and for every account,
\* AddNewAccount returns true, with the account then uncommitted in the lookup
\* and pending, exactly when nothing is stored under the name, and it
\* returns false and leaves the store as it is otherwise;
\* MarkAccountAsBroadcasted leaves the pending accounts as they are;
\* MarkAccountAsCommitted takes the account out of the pending ones and makes
\* the lookup report it committed.
C30_AccountLifeCycle ==
    \A unitAccount \in UnitAccounts :
        LET store == solo.store
            stored == store.lookup[unitAccount.ID] # NoAccountInfo
            add == AddNewAccount(store, unitAccount)
            committed == MarkAccountAsCommitted(store, unitAccount) IN
        /\ add.added <=> ~stored
        /\ add.added =>
              /\ GetAccountInfo(add.store, unitAccount)
                     = [Committed |-> FALSE, UnitAccount |-> unitAccount]
              /\ PendingAccount(add.store) = PendingAccount(store) \cup {unitAccount}
        /\ ~add.added => add.store = store
        /\ PendingAccount(MarkAccountAsBroadcasted(store, unitAccount)) = PendingAccount(store)
        /\ \A acc \in PendingAccount(committed) : acc.ID # unitAccount.ID
        /\ PendingAccount(committed) \subseteq PendingAccount(store)
        /\ GetAccountInfo(committed, unitAccount)
               = [Committed |-> TRUE, UnitAccount |-> unitAccount]

\* an account that was only marked committed has been refused by
\* AddNewAccount
C30_Witness ==
    /\ solo.last.op = "AddNewAccount"
    /\ ~solo.last.added
    /\ solo.last.account.ID = "bryanrhee"
    /\ solo.seen = {"bryanrhee"}
    /\ solo.store.lookup["bryanrhee"].Committed
    /\ PendingAccount(solo.store) = {}

\* an added account is pending after it was marked broadcasted
C30_WitnessPending ==
    /\ solo.last.op = "MarkAccountAsBroadcasted"
    /\ solo.store.outqueue[solo.last.account.ID] = NoAccountInfo
    /\ solo.last.account \in PendingAccount(solo.store)

\* the node has queued its precommit of a round for a block id
OwnPrecommit(cs, height, round, blockID) ==
    \E i \in DOMAIN cs.internalMsgQueue :
        cs.internalMsgQueue[i] = VoteMessage(PrecommitType, height, round, blockID, cs.me)

\* a step that leaves the height at Precommit of a round it was not at before
EntersPrecommit(height) ==
    /\ height \in DOMAIN solo.roundStates
    /\ height \in DOMAIN solo'.roundStates
    /\ ~solo'.panicked
    /\ solo'.roundStates[height].Step = RoundStepPrecommit
    /\ \/ solo.roundStates[height].Step # RoundStepPrecommit
       \/ solo.roundStates[height].Round # solo'.roundStates[height].Round

\* C31: at Precommit(r) with +2/3 prevotes of r for the proposal block, the
\* node locks the block at r and precommits it when the block validates and
\* its link to the previous block holds, and precommits nil without locking
\* it otherwise; with +2/3 for nil, or for a block it does not have, it
\* clears the lock and precommits nil.
LinkedLockDiscipline(height) ==
    LET before == solo.roundStates[height]
        rs == solo'.roundStates[height]
        round == rs.Round
        blockID == TwoThirdsMajority(solo.state.Validators, rs.Votes, PrevoteType, round) IN
    (EntersPrecommit(height)
        /\ HasTwoThirdsMajority(solo.state.Validators, rs.Votes, PrevoteType, round)) =>
        IF blockID = NilID
        THEN /\ rs.LockedRound = -1 /\ rs.LockedBlock = NoBlock
             /\ OwnPrecommit(solo', height, round, NilID)
        ELSE IF HashesTo(rs.ProposalBlock, blockID)
        THEN IF /\ ValidateBlock(solo', rs.ProposalBlock) = "ok"
                /\ validatePreviousBlock(solo', rs.ProposalBlock)
             THEN /\ rs.LockedRound = round /\ rs.LockedBlock = rs.ProposalBlock
                  /\ OwnPrecommit(solo', height, round, blockID)
             ELSE /\ ~HashesTo(rs.LockedBlock, blockID)
                  /\ OwnPrecommit(solo', height, round, NilID)
        ELSE IF ~HashesTo(before.LockedBlock, blockID)
        THEN /\ rs.LockedRound = -1 /\ rs.LockedBlock = NoBlock
             /\ OwnPrecommit(solo', height, round, NilID)
        ELSE TRUE

LockDiscipline(height) ==
    LET before == solo.roundStates[height]
        rs == solo'.roundStates[height]
        round == rs.Round
        blockID == TwoThirdsMajority(solo.state.Validators, rs.Votes, PrevoteType, round) IN
    (EntersPrecommit(height)
        /\ HasTwoThirdsMajority(solo.state.Validators, rs.Votes, PrevoteType, round)) =>
        IF blockID = NilID
        THEN /\ rs.LockedRound = -1 /\ rs.LockedBlock = NoBlock
             /\ OwnPrecommit(solo', height, round, NilID)
        ELSE IF HashesTo(rs.ProposalBlock, blockID)
        THEN /\ rs.LockedRound = round /\ rs.LockedBlock = rs.ProposalBlock
             /\ OwnPrecommit(solo', height, round, blockID)
        ELSE IF ~HashesTo(before.LockedBlock, blockID)
        THEN /\ rs.LockedRound = -1 /\ rs.LockedBlock = NoBlock
             /\ OwnPrecommit(solo', height, round, NilID)
        ELSE TRUE

C31_WitnessUnlinked ==
    \E height \in Heights :
        /\ HasRoundState(solo, height)
        /\ solo.roundStates[height].Step = RoundStepPrecommit
        /\ solo.roundStates[height].ProposalBlock # NoBlock
        /\ TwoThirdsMajority(solo.state.Validators, solo.roundStates[height].Votes,
                             PrevoteType, solo.roundStates[height].Round)
               = Hash(solo.roundStates[height].ProposalBlock)
        /\ ~validatePreviousBlock(solo, solo.roundStates[height].ProposalBlock)
        /\ solo.roundStates[height].LockedBlock = NoBlock
        /\ OwnPrecommit(solo, height, solo.roundStates[height].Round, NilID)

\* +2/3 prevoted nil: nil is precommitted
C31_WitnessNil ==
    \E height \in Heights :
        /\ HasRoundState(solo, height)
        /\ solo.roundStates[height].Step = RoundStepPrecommit
        /\ HasTwoThirdsMajority(solo.state.Validators, solo.roundStates[height].Votes,
                                PrevoteType, solo.roundStates[height].Round)
        /\ TwoThirdsMajority(solo.state.Validators, solo.roundStates[height].Votes,
                             PrevoteType, solo.roundStates[height].Round) = NilID
        /\ OwnPrecommit(solo, height, solo.roundStates[height].Round, NilID)

\* the block id the node is to prevote at a height: the locked block when its
\* link to the previous block holds, or else the proposal block when it
\* validates and its link holds, or else nil
PrevoteChoice(cs, height) ==
    LET rs == cs.roundStates[height] IN
    IF rs.LockedBlock # NoBlock /\ validatePreviousBlock(cs, rs.LockedBlock)
    THEN Hash(rs.LockedBlock)
    ELSE IF /\ rs.ProposalBlock # NoBlock
            /\ ValidateBlock(cs, rs.ProposalBlock) = "ok"
            /\ validatePreviousBlock(cs, rs.ProposalBlock)
         THEN Hash(rs.ProposalBlock)
         ELSE NilID

\* the prevotes of the node for a height and round in its internal queue
OwnPrevotes(cs, height, round) ==
    {i \in DOMAIN cs.internalMsgQueue :
        /\ cs.internalMsgQueue[i].kind = "vote"
        /\ cs.internalMsgQueue[i].Type = PrevoteType
        /\ cs.internalMsgQueue[i].Height = height
        /\ cs.internalMsgQueue[i].Round = round
        /\ cs.internalMsgQueue[i].Val = cs.me}

\* a step that leaves the height at Prevote of a round it was not at before
EntersPrevote(height) ==
    /\ height \in DOMAIN solo.roundStates
    /\ height \in DOMAIN solo'.roundStates
    /\ ~solo'.panicked
    /\ solo'.roundStates[height].Step = RoundStepPrevote
    /\ \/ solo.roundStates[height].Step # RoundStepPrevote
       \/ solo.roundStates[height].Round # solo'.roundStates[height].Round

PrevoteDiscipline(height) ==
    LET round == solo'.roundStates[height].Round IN
    EntersPrevote(height) =>
        /\ Cardinality(OwnPrevotes(solo', height, round)) = 1
        /\ \A i \in OwnPrevotes(solo', height, round) :
              solo'.internalMsgQueue[i].BlockID = PrevoteChoice(solo', height)

C32_WitnessUnlinked ==
    \E height \in Heights :
        /\ HasRoundState(solo, height)
        /\ solo.roundStates[height].Step = RoundStepPrevote
        /\ solo.roundStates[height].ProposalBlock # NoBlock
        /\ ~validatePreviousBlock(solo, solo.roundStates[height].ProposalBlock)
        /\ \E i \in DOMAIN solo.internalMsgQueue :
              solo.internalMsgQueue[i] =
                  VoteMessage(PrevoteType, height, solo.roundStates[height].Round, NilID, solo.me)

\* the node has prevoted its proposal block
C32_WitnessProposal ==
    \E height \in Heights :
        /\ HasRoundState(solo, height)
        /\ solo.roundStates[height].Step = RoundStepPrevote
        /\ solo.roundStates[height].LockedBlock = NoBlock
        /\ solo.roundStates[height].ProposalBlock # NoBlock
        /\ \E i \in DOMAIN solo.internalMsgQueue :
              solo.internalMsgQueue[i] =
                  VoteMessage(PrevoteType, height, solo.roundStates[height].Round,
                              Hash(solo.roundStates[height].ProposalBlock), solo.me)

\* C33: once the step of a height is Commit, its round and its step
\* never change again.
C33_CommitIsTerminal ==
    [][\A height \in DOMAIN solo.roundStates \cap DOMAIN solo'.roundStates :
          solo.roundStates[height].Step = RoundStepCommit =>
              /\ solo'.roundStates[height].Step = RoundStepCommit
              /\ solo'.roundStates[height].Round = solo.roundStates[height].Round]_vars

\* the calls asleep on the condition variable
Asleep == {h \in GateHeights : solo.pc[h] = "waiting"}

\* C34: whenever the finalize mutex is free, no call is asleep whose height
\* is the next to finalize; and a call that waits for the height before it,
\* once that height is finalized, goes on to finalize its own.
C34_NoLostWakeup ==
    /\ [](solo.owner = 0 => \A h \in Asleep : h # solo.LastBlockHeight + 1)
    /\ \A h \in GateHeights :
          (solo.pc[h] \in {"waiting", "woken"} /\ solo.LastBlockHeight = h - 1)
              ~> (solo.pc[h] = "done")

\* the calls of the two heights above wait while none is finalized
C34_Witness ==
    /\ solo.LastBlockHeight = 0
    /\ Asleep = GateHeights \ {1}
    /\ solo.waitFinalize = 1

\* the highest call has waited and all heights are finalized
C34_WitnessDone ==
    /\ MaxGateHeight \in solo.waited
    /\ \A h \in GateHeights : solo.pc[h] = "done"


\* the timeouts a ticker can deliver: the steps that scheduleTimeout is
\* called with, at any round explored or the one after
TimeoutInfos ==
    [Round : 0..(MaxRound + 1),
     Step : {RoundStepNewHeight, RoundStepNewRound, RoundStepPropose,
             RoundStepPrevoteWait, RoundStepPrecommitWait},
     pending : {TRUE}]

\* the timeout is for no RoundState, for a round the height has left, or for
\* a step of its round that the height has left
StaleTimeout(cs, height, ti) ==
    \/ ~HasRoundState(cs, height)
    \/ ti.Round < cs.roundStates[height].Round
    \/ /\ ti.Round = cs.roundStates[height].Round
       /\ ti.Step < cs.roundStates[height].Step

StoredRank(ss) ==
    IF RaceHeight \in DOMAIN ss.HeightSignStateMap
    THEN ss.HeightSignStateMap[RaceHeight].Round * 4 + ss.HeightSignStateMap[RaceHeight].Step
    ELSE 0

\* C36: of the requests for one (height, round, step) that returned with a
\* signature no two have different sign-bytes, and no step lowers the
\* (round, step) that the signer holds for the height.
C36_CheckThenStore ==
    [][/\ \A g1, g2 \in granted' :
             (g1.r = g2.r /\ g1.s = g2.s) => g1.req = g2.req
       /\ StoredRank(pv') >= StoredRank(pv)]_vars


\* C37: the handler of txs-available gives cs.mtx back after it has taken it,
\* and a call of GetState (GetLastHeight, GetValidators and LoadCommit take
\* the same read lock) returns.
C37_TxsAvailableReturns ==
    /\ (solo.owner[StateTarget] = "txs") ~> (solo.owner[StateTarget] # "txs")
    /\ <>(solo.pc["getState"] > Len(GetStateOps))


\* C38: the watermark that a reload of the signer state file would give is
\* never below the watermark in force, at whatever point the node crashes
\* after a SetImmutableHeight that succeeded.
C38_WatermarkDurable ==
    UnmarshalJSON(file).ImmutableHeight >= pv.ImmutableHeight


C39_WitnessUnlocked ==
    \E height \in DOMAIN solo.roundStates :
        /\ solo.roundStates[height].LockedRound = -1
        /\ solo.roundStates[height].ValidRound >= 0


\* the heights that have a RoundState or a ticker
KeptHeights(cs) == DOMAIN cs.roundStates \cup DOMAIN cs.timeoutTickers

\* C40: between the handlers every height with a RoundState or a ticker is
\* above last_block_height - k, and a step keeps the votes of every
\* RoundState that it leaves in place: no signal of scheduleNewHeightRound0
\* makes the RoundState or ticker of a cleaned height again or puts a fresh
\* RoundState in the place of one that exists.
C40_NoResurrection ==
    [][/\ \A h \in KeptHeights(solo') :
             h > solo'.state.LastBlockHeight - solo'.state.LenULB
       /\ \A h \in DOMAIN solo.roundStates \cap DOMAIN solo'.roundStates :
             solo.roundStates[h].Votes \subseteq solo'.roundStates[h].Votes]_vars


\* C1: two correct nodes that have both finalized a block at a height have
\* finalized the same block, with less than a third of the voting power
\* Byzantine.
C1_Agreement ==
    \A a, b \in Correct :
        \A h \in DOMAIN nodes[a].blockStore \cap DOMAIN nodes[b].blockStore :
            nodes[a].blockStore[h] = nodes[b].blockStore[h]

====
